---- MODULE Spec2Model ----
(***************************************************************************)
(* Availability and slot computation of the provider schedule page:        *)
(* the SchedulingParameters recurrence codec (SetAvailabilityModal), the   *)
(* virtual slot generator and the calendar handlers (SchedulePage), the    *)
(* visit form (CreateVisit) and the series canceller.                      *)
(***************************************************************************)
EXTENDS Integers, Sequences, FiniteSets, Bags, TLC

VARIABLES
    \* --- SetAvailabilityModal: availability form and its persisted form ---
    weekSchedule,   \* formValues.weekSchedule: day -> [enabled, timeWindows]
    availability,   \* the 'availability' sub-extensions last saved on the Schedule
    savedWeek,      \* history: the weekSchedule that the last save encoded
    cphase,         \* "form" (editing) | "saved" (just saved) | "parsed" (just re-opened)
    nEdits,         \* number of form edits made so far
    serviceTypeOverrides, \* formValues.serviceTypeOverrides: [serviceType, weekSchedule, params]
    formParams,     \* formValues: duration, buffers, alignment, bookingLimits, timezone
    existingBlocks, \* the modal's list of busy-unavailable slots on the server
    \* --- SchedulePage: the schedule, the visible range and what derives from it ---
    schedule,           \* the Schedule: its SchedulingParameters blocks
    range,              \* the visible range [start, end], NoRange before the first
    availabilitySlots,  \* useMemo: generateAvailabilitySlots(schedule, range)
    \* --- the Resource Store ---
    storeSlots,         \* the persisted Slot resources
    storeAppointments,  \* the persisted Appointment resources
    nextId,             \* the next identifier the store (or uuidv4) hands out
    \* --- SchedulePage: what it fetched and what is still on its way ---
    slotSearches,       \* responses of Slot searches not yet delivered
    slots,              \* useState slots: Undefined or the merged persisted slots
    appointmentSearch,  \* the response of the one active Appointment search
    appointments,       \* useState appointments: Undefined or the fetched list
    peerAppointments,   \* useState appointments of a second session of the page
    \* --- ScheduleFindPane and the $find slots the page holds for it ---
    findSlots,          \* useState findSlots: the $find results shown
    serviceType,        \* the pane's selection: NoSelection, NoServiceType or a name
    findRequests,       \* the $find requests not yet settled, each with its signal
    \* --- SchedulePage: the slot-choice dialog and the drawers ---
    pendingSlotInfo,    \* the interval selected on the calendar, or NoSlotInfo
    slotChoiceOpened,   \* whether the slot-choice dialog is open
    showBlockForm,      \* whether the dialog shows the block form
    appointmentSlot,    \* the interval handed to CreateVisit, or NoRange
    appointmentDetails, \* the appointment shown in the details drawer, or NoAppointment
    notice,             \* the notification shown last
    \* --- CreateVisit ---
    visitOpen,                  \* the drawer holding the form is open
    visitStart,                 \* useState start
    visitEnd,                   \* useState end
    isRecurring,
    recurrenceOccurrences,
    recurrenceIntervalWeeks,
    required,                   \* which of patient, plan definition and class are set
    encounters,                 \* the encounters the last submit created
    submitRun,                  \* isLoading, and the loop of the submit in progress
    location,                   \* "schedule", or "encounter" once the form navigated away
    \* --- cancelRecurrenceSeries ---
    cancelRun           \* the series cancellation in progress, or NoRun

codecVars == <<weekSchedule, availability, savedWeek, cphase, nEdits, serviceTypeOverrides,
               formParams>>
genVars == <<schedule, range, availabilitySlots>>
storeVars == <<storeSlots, storeAppointments, nextId>>
fetchVars == <<slotSearches, slots, appointmentSearch, appointments, peerAppointments>>
dialogVars == <<pendingSlotInfo, slotChoiceOpened, showBlockForm, appointmentSlot, appointmentDetails>>
visitVars == <<visitOpen, visitStart, visitEnd, isRecurring, recurrenceOccurrences,
               recurrenceIntervalWeeks, required, encounters, submitRun, location>>
findVars == <<findSlots, serviceType, findRequests>>
vars == <<codecVars, existingBlocks, genVars, storeVars, fetchVars, findVars, dialogVars,
          notice, visitVars, cancelRun>>

\* What the handlers of one component leave alone.
notCodec == <<existingBlocks, genVars, storeVars, fetchVars, findVars, dialogVars, notice,
             visitVars, cancelRun>>
notPage == <<codecVars, existingBlocks, findVars, visitVars, cancelRun>>
notVisit == <<codecVars, existingBlocks, genVars, fetchVars, findVars, dialogVars, cancelRun>>
notFind == <<codecVars, existingBlocks, visitVars, cancelRun>>

(***************************************************************************)
(* Bounds of the model.                                                    *)
(***************************************************************************)
MaxEdits == 2
\* The calendar shows days 0..MaxDay; day 0 is a Monday.
MaxDay == 8
\* The store holds at most MaxSlots slots and MaxAppointments appointments.
MaxSlots == 3
MaxAppointments == 6
\* At most MaxFinds $find requests are unsettled at a time.
MaxFinds == 2

(***************************************************************************)
(* Numbers.  A JavaScript number x is modelled by the integer x * Q, so    *)
(* that hours held as minutes/60 stay integers; the rounding residue of an *)
(* inexact IEEE-754 double operation is one unit (1/Q).                    *)
(***************************************************************************)
Q == 600

Num(x) == x * Q

\* Math.round(n) for a number n >= 0 (result a plain integer).
MathRound(n) == (n + (Q \div 2)) \div Q

(***************************************************************************)
(* Time-of-day text.  "HH:MM" is the pair of its ':'-separated fields,     *)
(* <<hours, minutes>>, and the FHIR time "HH:MM:SS" the triple with the    *)
(* seconds field; the hours field is a plain integer and the minutes field *)
(* a number (a malformed "00:31.000000000000004" is <<0, Num(31) + 1>>).   *)
(***************************************************************************)
HM(h, m) == <<h, Num(m)>>

ORDERED_DAYS == <<"mon", "tue", "wed", "thu", "fri", "sat", "sun">>

DayOfWeek == {ORDERED_DAYS[i] : i \in 1..Len(ORDERED_DAYS)}

DEFAULT_WINDOW == [startTime |-> HM(9, 0), endTime |-> HM(17, 0)]

makeDefaultWeek ==
    [d \in DayOfWeek |->
        IF d \in {"sat", "sun"}
        THEN [enabled |-> FALSE, timeWindows |-> <<>>]
        ELSE [enabled |-> TRUE, timeWindows |-> <<DEFAULT_WINDOW>>]]

\* (parts[0] ?? 0) * 60 + (parts[1] ?? 0); a seconds field is ignored.
timeToMinutes(time) == Num(time[1] * 60) + time[2]

\* hh = Math.floor(m / 60) % 24, mm = m % 60.
minutesToTime(m) == <<(m \div Num(60)) % 24, m % Num(60)>>

(***************************************************************************)
(* startMinutes + durationHours * 60 in IEEE-754 double arithmetic, where  *)
(* durationHours is the double nearest minutes/60.  The sum is exact for   *)
(* every whole number of minutes up to 1440 when startMinutes >= 62; from  *)
(* midnight (startMinutes = 0) these durations come out one ulp high or    *)
(* low (31/60*60 = 31.000000000000004, 123/60*60 = 122.99999999999999).    *)
(***************************************************************************)
InexactHigh ==
    {31, 62, 124, 125, 248, 249, 250, 481, 483, 485, 496, 498, 500, 511, 962,
     966, 970, 977, 981, 985, 992, 996, 1000, 1007, 1011, 1015, 1022}

InexactLow ==
    {123, 245, 246, 247, 490, 492, 494, 505, 507, 509, 965, 969, 973, 980, 984,
     988, 995, 999, 1003, 1010, 1014, 1018}

DoubleResidue(startMinutes, durationMinutes) ==
    IF startMinutes # 0 THEN 0
    ELSE IF durationMinutes \in {Num(d) : d \in InexactHigh} THEN 1
    ELSE IF durationMinutes \in {Num(d) : d \in InexactLow} THEN -1
    ELSE 0

fhirToTimeWindow(startTime, durationHours) ==
    LET startMinutes == timeToMinutes(startTime)
        endMinutes == startMinutes + durationHours * 60
                        + DoubleResidue(startMinutes, durationHours * 60)
    IN [startTime |-> SubSeq(startTime, 1, 2),     \* startTime.substring(0, 5)
        endTime |-> minutesToTime(endMinutes)]

\* (e - s) / 60, a day added when e <= s; the result is in hours.
timeWindowDurationHours(tw) ==
    LET s == timeToMinutes(tw.startTime)
        e == timeToMinutes(tw.endTime)
        diff == IF e - s <= 0 THEN e - s + Num(24 * 60) ELSE e - s
    IN diff \div 60

(***************************************************************************)
(* parseWeekScheduleFromExtension.  An availability entry is the repeat    *)
(* of its valueTiming: [dayOfWeek, timeOfDay, duration, durationUnit].     *)
(***************************************************************************)
AllOff == [d \in DayOfWeek |-> [enabled |-> FALSE, timeWindows |-> <<>>]]

RECURSIVE PushTimes(_, _, _)
PushTimes(windows, times, durHours) ==
    IF times = <<>> THEN windows
    ELSE PushTimes(Append(windows, fhirToTimeWindow(Head(times), durHours)),
                   Tail(times), durHours)

RECURSIVE ParseDays(_, _, _, _)
ParseDays(week, days, times, durHours) ==
    IF days = <<>> THEN week
    ELSE LET day == Head(days)
         IN ParseDays(
                IF day \in DOMAIN week
                THEN [week EXCEPT ![day] =
                        [enabled |-> TRUE,
                         timeWindows |-> PushTimes(@.timeWindows, times, durHours)]]
                ELSE week,
                Tail(days), times, durHours)

RECURSIVE ParseAvailabilities(_, _)
ParseAvailabilities(week, avails) ==
    IF avails = <<>> THEN week
    ELSE LET repeat == Head(avails)
             durHours == IF repeat.durationUnit = "h" THEN repeat.duration
                         ELSE repeat.duration \div 60
         IN ParseAvailabilities(
                ParseDays(week, repeat.dayOfWeek, repeat.timeOfDay, durHours),
                Tail(avails))

parseWeekScheduleFromExtension(avails) ==
    LET week == ParseAvailabilities(AllOff, avails)
    IN [d \in DayOfWeek |->
          IF week[d].enabled /\ week[d].timeWindows = <<>>
          THEN [week[d] EXCEPT !.timeWindows = <<DEFAULT_WINDOW>>]
          ELSE week[d]]

(***************************************************************************)
(* buildAvailabilityExtensions.  The two Maps are sequences of groups in   *)
(* insertion order, each group carrying its key.                           *)
(***************************************************************************)
\* The code units order of Array.prototype.sort() on the day codes.
AlphaRank(d) ==
    CASE d = "fri" -> 1 [] d = "mon" -> 2 [] d = "sat" -> 3 [] d = "sun" -> 4
      [] d = "thu" -> 5 [] d = "tue" -> 6 [] d = "wed" -> 7

AlphaBefore(a, b) == AlphaRank(a) < AlphaRank(b)

\* g.days.sort()
SortDays(days) == SortSeq(days, AlphaBefore)

InSeq(x, seq) == \E i \in 1..Len(seq) : seq[i] = x

\* Map.get that sees only the group inserted last.
KeyIndexLast(groups, key) ==
    IF groups # <<>> /\ groups[Len(groups)].key = key THEN Len(groups) ELSE 0

\* The index of the group stored under key, 0 when the Map has none.
KeyIndex(groups, key) ==
    IF \E i \in 1..Len(groups) : groups[i].key = key
    THEN CHOOSE i \in 1..Len(groups) : groups[i].key = key
    ELSE 0

\* startTime.length === 5 ? `${startTime}:00` : startTime
WithSeconds(startTime) == IF Len(startTime) = 2 THEN Append(startTime, 0) ELSE startTime

RECURSIVE DayEntries(_, _)
DayEntries(day, windows) ==
    IF windows = <<>> THEN <<>>
    ELSE <<[day |-> day,
            startTime |-> WithSeconds(Head(windows).startTime),
            durationHours |-> timeWindowDurationHours(Head(windows))]>>
         \o DayEntries(day, Tail(windows))

RECURSIVE WindowEntries(_, _)
WindowEntries(week, i) ==
    IF i > Len(ORDERED_DAYS) THEN <<>>
    ELSE LET ds == week[ORDERED_DAYS[i]]
         IN (IF ds.enabled THEN DayEntries(ORDERED_DAYS[i], ds.timeWindows) ELSE <<>>)
            \o WindowEntries(week, i + 1)

\* GroupKey with the day in the key: no two days ever share a group.
GroupKeyPerDay(e) == <<e.startTime, MathRound(e.durationHours * 100), e.day>>

\* Group by (startTime, durationHours) -> days[]
GroupKey(e) == <<e.startTime, MathRound(e.durationHours * 100)>>

RECURSIVE GroupEntries(_, _)
GroupEntries(entries, groups) ==
    IF entries = <<>> THEN groups
    ELSE LET e == Head(entries)
             i == KeyIndex(groups, GroupKey(e))
         IN GroupEntries(Tail(entries),
                IF i # 0
                THEN IF InSeq(e.day, groups[i].days) THEN groups
                     ELSE [groups EXCEPT ![i].days = Append(@, e.day)]
                ELSE Append(groups, [key |-> GroupKey(e),
                                     startTime |-> e.startTime,
                                     durationHours |-> e.durationHours,
                                     days |-> <<e.day>>]))

\* Group by (sorted days, durationHours) -> times[]
SuperKey(g) == <<SortDays(g.days), MathRound(g.durationHours * 100)>>

RECURSIVE SuperGroupEntries(_, _)
SuperGroupEntries(groups, superGroups) ==
    IF groups = <<>> THEN superGroups
    ELSE LET g == Head(groups)
             i == KeyIndex(superGroups, SuperKey(g))
         IN SuperGroupEntries(Tail(groups),
                IF i # 0
                THEN [superGroups EXCEPT ![i].times = Append(@, g.startTime)]
                ELSE Append(superGroups, [key |-> SuperKey(g),
                                          days |-> SortDays(g.days),
                                          durationHours |-> g.durationHours,
                                          times |-> <<g.startTime>>]))

buildAvailabilityExtensions(week) ==
    LET superGroups ==
            SuperGroupEntries(GroupEntries(WindowEntries(week, 1), <<>>), <<>>)
    IN [i \in 1..Len(superGroups) |->
          [dayOfWeek |-> superGroups[i].days,
           timeOfDay |-> superGroups[i].times,
           duration |-> superGroups[i].durationHours,
           durationUnit |-> "h"]]

(***************************************************************************)
(* Instants are whole seconds of local time since the midnight that starts *)
(* day 0, a Monday (the milliseconds of a Date are below this unit); every *)
(* local day has 24 hours (no clock change falls in the days shown).  An   *)
(* ISO string of an instant is the instant.                                *)
(***************************************************************************)
Hour == 3600
Day == 24 * Hour

Midnight(d) == d * Day

\* Date.setHours(0, 0, 0, 0)
StartOfDay(t) == (t \div Day) * Day

\* Date.setHours(23, 59, 59, 999): the last second of the day.
EndOfDay(t) == StartOfDay(t) + Day - 1

\* Date.getDay(): 0 = Sunday .. 6 = Saturday.
GetDay(t) == ((t \div Day) + 1) % 7

DAY_OF_WEEK_MAP(d) ==
    CASE d = "sun" -> 0 [] d = "mon" -> 1 [] d = "tue" -> 2 [] d = "wed" -> 3
      [] d = "thu" -> 4 [] d = "fri" -> 5 [] d = "sat" -> 6 [] OTHER -> -1

NoId == 0
NoRange == [start |-> -1, end |-> -1]
NoServiceType == "none"

(***************************************************************************)
(* generateAvailabilitySlots.  A SchedulingParameters block is             *)
(* [serviceType, availability]; the Schedule is the sequence of its blocks.*)
(***************************************************************************)
\* extensions[0], whatever its serviceType: its index, or 0.
DefaultExtIndexFirst(sched) == IF sched # <<>> THEN 1 ELSE 0

\* extensions.find((ext) => !getExtensionValue(ext, 'serviceType')): its index, or 0.
DefaultExtIndex(sched) ==
    IF \E i \in 1..Len(sched) : sched[i].serviceType = NoServiceType
    THEN CHOOSE i \in 1..Len(sched) :
            /\ sched[i].serviceType = NoServiceType
            /\ \A j \in 1..(i - 1) : sched[j].serviceType # NoServiceType
    ELSE 0

\* One AvailEntry: the set of day numbers and the windows of an availability.
AvailEntry(repeat) ==
    LET durationHours == IF repeat.durationUnit = "h" THEN repeat.duration
                         ELSE repeat.duration \div 60
    IN [days |-> {n \in {DAY_OF_WEEK_MAP(repeat.dayOfWeek[i]) :
                            i \in 1..Len(repeat.dayOfWeek)} : n >= 0},
        windows |-> [i \in 1..Len(repeat.timeOfDay) |->
                        [startHour |-> repeat.timeOfDay[i][1],
                         startMin |-> repeat.timeOfDay[i][2],
                         durationHours |-> durationHours]]]

\* The slots of one entry on the day that starts at current.
RECURSIVE WindowSlots(_, _)
WindowSlots(current, windows) ==
    IF windows = <<>> THEN <<>>
    ELSE LET w == Head(windows)
             \* slotStart.setHours(w.startHour, w.startMin, 0, 0)
             slotStart == StartOfDay(current) + w.startHour * Hour
                            + (w.startMin * 60) \div Q
             \* slotStart.getTime() + w.durationHours * 60 * 60 * 1000
             slotEnd == slotStart + (w.durationHours * Hour) \div Q
         IN <<[status |-> "free", start |-> slotStart, end |-> slotEnd, id |-> NoId]>>
            \o WindowSlots(current, Tail(windows))

RECURSIVE EntrySlots(_, _)
EntrySlots(current, entries) ==
    IF entries = <<>> THEN <<>>
    ELSE (IF GetDay(current) \in Head(entries).days
          THEN WindowSlots(current, Head(entries).windows) ELSE <<>>)
         \o EntrySlots(current, Tail(entries))

\* while (current <= end) { ...; current.setDate(current.getDate() + 1) }
RECURSIVE DaySlots(_, _, _)
DaySlots(current, end, entries) ==
    IF current <= end
    THEN EntrySlots(current, entries) \o DaySlots(current + Day, end, entries)
    ELSE <<>>

\* A generator that starts every slot bufferBefore minutes late when the
\* default block carries a bufferBefore.
generateAvailabilitySlotsBuffered(sched, rng) ==
    LET i == DefaultExtIndex(sched)
    IN IF i = 0 THEN <<>>
       ELSE IF sched[i].availability = <<>> THEN <<>>
       ELSE LET entries == [k \in 1..Len(sched[i].availability) |->
                               AvailEntry(sched[i].availability[k])]
                plain == DaySlots(StartOfDay(rng.start), EndOfDay(rng.end), entries)
                buffer == IF "bufferBefore" \in DOMAIN sched[i]
                          THEN sched[i].bufferBefore.value * 60 ELSE 0
            IN [k \in 1..Len(plain) |-> [plain[k] EXCEPT !.start = @ + buffer]]

generateAvailabilitySlots(sched, rng) ==
    LET i == DefaultExtIndex(sched)
    IN IF i = 0 THEN <<>>
       ELSE IF sched[i].availability = <<>> THEN <<>>
       ELSE LET entries == [k \in 1..Len(sched[i].availability) |->
                               AvailEntry(sched[i].availability[k])]
            IN DaySlots(StartOfDay(rng.start), EndOfDay(rng.end), entries)

(***************************************************************************)
(* The Resource Store and what SchedulePage fetches from it.  A Slot is    *)
(* [id, status, start, end, transient], transient telling whether it       *)
(* carries the SchedulingTransientIdentifier; an Appointment is            *)
(* [id, status, start, end, seriesId].  A state read as (x ?? []) is the   *)
(* empty list while it is undefined.                                       *)
(***************************************************************************)
NoSeries == 0
NoSlotInfo == [start |-> -1, end |-> -1]
NoAppointment == [id |-> NoId]
NoSearch == [active |-> FALSE, result |-> <<>>]
NoNotice == [message |-> "none", count |-> 0]

Notice(message, count) == [message |-> message, count |-> count]

Block(st, avails) == [serviceType |-> st, availability |-> avails]

Repeat(days, times, duration, unit) ==
    [dayOfWeek |-> days, timeOfDay |-> times, duration |-> duration, durationUnit |-> unit]

\* The records of a set as the store returns them, oldest identifier first.
RECURSIVE ById(_)
ById(S) ==
    IF S = {} THEN <<>>
    ELSE LET x == CHOOSE x \in S : \A y \in S : x.id <= y.id
         IN <<x>> \o ById(S \ {x})

\* searchResources('Slot', schedule, start ge range.start, start le range.end,
\*                 status free,busy-unavailable)
SearchSlots(store, rng) ==
    ById({s \in store : /\ s.start >= rng.start
                        /\ s.start <= rng.end
                        /\ s.status \in {"free", "busy-unavailable"}})

\* searchResources('Appointment', actor, date ge range.start, date le range.end)
SearchAppointments(store, rng) ==
    ById({a \in store : a.start >= rng.start /\ a.start <= rng.end})

\* searchResources('Slot', schedule, status busy-unavailable, _sort start)
FetchExistingBlocks(store) ==
    SortSeq(ById({s \in store : s.status = "busy-unavailable"}),
            LAMBDA a, b : a.start < b.start)

\* utils/slots rangesOverlap: the half-open intervals intersect.
rangesOverlap(aStart, aEnd, bStart, bEnd) == aStart < bEnd /\ bStart < aEnd

\* A merge that extends the slot emitted last whatever its status.
MergeStepAnyStatus(merged, s) ==
    IF merged # <<>> /\ s.start <= merged[Len(merged)].end
    THEN [merged EXCEPT ![Len(merged)].end = IF s.end > @ THEN s.end ELSE @]
    ELSE Append(merged, s)

\* utils/slots mergeOverlappingSlots: in start order, a slot that overlaps or
\* touches the covering slot last emitted for its status extends that slot,
\* any other slot is emitted as it is.
MergeStep(merged, s) ==
    LET same == {i \in 1..Len(merged) : merged[i].status = s.status}
        last == CHOOSE i \in same : \A j \in same : j <= i
    IN IF same # {} /\ s.start <= merged[last].end
       THEN [merged EXCEPT ![last].end = IF s.end > @ THEN s.end ELSE @]
       ELSE Append(merged, s)

RECURSIVE MergeAll(_, _)
MergeAll(merged, rest) ==
    IF rest = <<>> THEN merged
    ELSE MergeAll(MergeStep(merged, Head(rest)), Tail(rest))

mergeOverlappingSlots(rawSlots) ==
    MergeAll(<<>>, SortSeq(rawSlots, LAMBDA a, b : a.start < b.start))

(***************************************************************************)
(* ScheduleFindPane: the service type selection and the $find request its  *)
(* effect issues; the clock stays before the first day the calendar shows, *)
(* so the search window is the visible range.                              *)
(***************************************************************************)
\* serviceType === null: no selection made.
NoSelection == "null"

\* parseSchedulingParameters: the serviceType of every block, in order.
parseSchedulingParameters(sched) == [i \in 1..Len(sched) |-> sched[i].serviceType]

\* allServiceTypes.filter((st) => st !== undefined)
NamedServiceTypes(sched) ==
    {sched[i].serviceType : i \in 1..Len(sched)} \ {NoServiceType}

\* !!serviceTypes?.length && schedule && range
PaneMounted(sched, rng) == NamedServiceTypes(sched) # {} /\ rng # NoRange

\* useState(serviceTypes.length === 1 ? serviceTypes[0].codeableConcept : null)
InitialServiceType(sched) ==
    IF Len(parseSchedulingParameters(sched)) = 1
    THEN parseSchedulingParameters(sched)[1] ELSE NoSelection

\* The request of one run of the effect, its signal not aborted.
FindRequest(st, rng) ==
    [serviceType |-> st,
     start |-> rng.start,
     end |-> IF rng.start < rng.end THEN rng.end ELSE rng.start + 7 * Day,
     aborted |-> FALSE]

\* controller.abort() of the effect's cleanup.
AbortAll(requests) == {[r EXCEPT !.aborted = TRUE] : r \in requests}

\* The Bundle a $find answers with: one free slot of an hour in the window
\* asked for, at an hour that depends on the service type asked for; the
\* pane marks it with the transient identifier.
FindResult(request) ==
    LET start == request.start + (IF request.serviceType = NoServiceType THEN 15 ELSE 14) * Hour
    IN <<[id |-> NoId, status |-> "free", start |-> start, end |-> start + Hour,
          transient |-> TRUE]>>

\* signal.aborted never seen.
AbortedNever(request) == FALSE

\* signal.aborted
Aborted(request) == request.aborted

\* The effect of the pane run again for a selection, a schedule and a range:
\* the cleanup aborts the request before, and a request is issued unless
\* nothing is selected.
RunFindEffect(st, rng) ==
    AbortAll(findRequests) \cup (IF st = NoSelection THEN {} ELSE {FindRequest(st, rng)})

\* What a new schedule or range does to the pane: it unmounts, it mounts with
\* its initial selection, or its effect runs again.
PaneFollows(sched, rng) ==
    IF ~PaneMounted(sched, rng)
    THEN /\ serviceType' = NoSelection
         /\ findRequests' = AbortAll(findRequests)
    ELSE /\ serviceType' = IF PaneMounted(schedule, range) THEN serviceType
                           ELSE InitialServiceType(sched)
         /\ findRequests' = RunFindEffect(serviceType', rng)
         /\ Cardinality(findRequests') <= MaxFinds

\* A service type button of the pane ('Other' for the block without one).
SetServiceType(st) ==
    /\ location = "schedule"
    /\ PaneMounted(schedule, range)
    /\ serviceType = NoSelection
    /\ \E i \in 1..Len(schedule) : schedule[i].serviceType = st
    /\ serviceType' = st
    /\ findRequests' = RunFindEffect(st, range)
    /\ Cardinality(findRequests') <= MaxFinds
    /\ UNCHANGED <<findSlots, genVars, storeVars, fetchVars, dialogVars, notice, notFind>>

\* handleDismiss: the pane's 'Clear selection'.
HandleDismiss ==
    /\ location = "schedule"
    /\ PaneMounted(schedule, range)
    /\ serviceType # NoSelection
    /\ Len(parseSchedulingParameters(schedule)) > 1
    /\ serviceType' = NoSelection
    /\ findSlots' = <<>>
    /\ findRequests' = RunFindEffect(NoSelection, range)
    /\ UNCHANGED <<genVars, storeVars, fetchVars, dialogVars, notice, notFind>>

\* A $find request settles: with a Bundle that has entries, with one that has
\* none, or with an error; .then and .catch both look at signal.aborted.
ResolveFind(request, outcome) ==
    /\ location = "schedule"
    /\ request \in findRequests
    /\ findRequests' = findRequests \ {request}
    /\ IF Aborted(request)
       THEN UNCHANGED <<findSlots, notice>>
       ELSE CASE outcome = "entries" -> findSlots' = FindResult(request) /\ UNCHANGED notice
              [] outcome = "empty" -> findSlots' = <<>> /\ UNCHANGED notice
              [] OTHER -> notice' = Notice("error", 0) /\ UNCHANGED findSlots
    /\ UNCHANGED <<serviceType, genVars, storeVars, fetchVars, dialogVars, notFind>>

\* refreshSlots: the response of the Slot search it issues joins those on
\* their way (none is issued before the first range is known).
RefreshSlots(store, rng) ==
    IF rng = NoRange THEN slotSearches
    ELSE slotSearches \cup {SearchSlots(store, rng)}

IsArray(newRange) == "dates" \in DOMAIN newRange

\* Calendar.handleRangeChange and SchedulePage.setRange, with what the new
\* range triggers: the useMemo on range, refreshSlots, and the Appointment
\* search that replaces the active one.
HandleRangeChange(newRange) ==
    LET newStart == IF IsArray(newRange) THEN newRange.dates[1] ELSE newRange.start
        newEnd == IF IsArray(newRange)
                  THEN newRange.dates[Len(newRange.dates)] + Day     \* .add(1, 'day')
                  ELSE newRange.end
    IN /\ location = "schedule"
       /\ newStart # range.start \/ newEnd # range.end
       /\ range' = [start |-> newStart, end |-> newEnd]
       /\ availabilitySlots' = generateAvailabilitySlots(schedule, range')
       /\ slotSearches' = RefreshSlots(storeSlots, range')
       /\ appointmentSearch' = [active |-> TRUE,
                                result |-> SearchAppointments(storeAppointments, range')]
       /\ PaneFollows(schedule, range')
       /\ UNCHANGED <<schedule, storeVars, slots, appointments, peerAppointments, findSlots, dialogVars,
                      notice, notFind>>

\* SetAvailabilityModal onSave and onClose: setSchedule, with what the new
\* schedule triggers (the useMemo on schedule, refreshSlots) and the
\* refreshSlots of onClose.
OnSave(updatedSchedule) ==
    /\ schedule' = updatedSchedule
    /\ availabilitySlots' = IF range # NoRange
                            THEN generateAvailabilitySlots(updatedSchedule, range)
                            ELSE <<>>
    /\ slotSearches' = RefreshSlots(storeSlots, range)
    /\ PaneFollows(updatedSchedule, range)

\* A save of the modal seen from the page: any of the Schedules it can write.
SetSchedule(updatedSchedule) ==
    /\ location = "schedule"
    /\ OnSave(updatedSchedule)
    /\ UNCHANGED <<range, storeVars, slots, appointmentSearch, appointments, peerAppointments, findSlots,
                   dialogVars, notice, notFind>>

\* .then((rawSlots) => setSlots(mergeOverlappingSlots(rawSlots))) of one of the
\* Slot searches on their way, whichever it is.
ResolveSlotSearch(rawSlots) ==
    /\ location = "schedule"
    /\ rawSlots \in slotSearches
    /\ slotSearches' = slotSearches \ {rawSlots}
    /\ slots' = mergeOverlappingSlots(rawSlots)
    /\ UNCHANGED <<genVars, storeVars, appointmentSearch, appointments, peerAppointments, dialogVars, notice,
                   notPage>>

\* .then((appointments) => active && setAppointments(appointments))
ResolveAppointmentSearch ==
    /\ location = "schedule"
    /\ appointmentSearch.active
    /\ appointments' = appointmentSearch.result
    /\ appointmentSearch' = NoSearch
    /\ UNCHANGED <<genVars, storeVars, slotSearches, slots, peerAppointments, dialogVars,
                   notice, notPage>>

(***************************************************************************)
(* SchedulePage: the slot-choice dialog, and the two places that create a  *)
(* busy-unavailable Slot (the dialog's block form and the modal).          *)
(***************************************************************************)
DEFAULT_APPT_MINUTES == 60

GetHours(t) == (t % Day) \div Hour
GetMinutes(t) == (t % Hour) \div 60

\* The filter without its status test: every persisted slot blocks.
BlockedSlotsAnyStatus(slotList) ==
    SelectSeq(slotList, LAMBDA s : s.id # NoId /\ ~s.transient)

\* (slots ?? []).filter((s) => s.id && s.status === 'busy-unavailable'
\*                             && !SchedulingTransientIdentifier.get(s))
BlockedSlots(slotList) ==
    SelectSeq(slotList, LAMBDA s : /\ s.id # NoId
                                   /\ s.status = "busy-unavailable"
                                   /\ ~s.transient)

\* The find over closed intervals: a block that only touches is found.
OverlappingBlockClosed(blocked, start, end) ==
    \E i \in 1..Len(blocked) : start <= blocked[i].end /\ blocked[i].start <= end

\* The find that skips an empty candidate interval.
OverlappingBlockNonEmpty(blocked, start, end) ==
    /\ start < end
    /\ \E i \in 1..Len(blocked) : rangesOverlap(start, end, blocked[i].start, blocked[i].end)

\* blockedSlots.find((s) => rangesOverlap(start, end, s.start, s.end))
OverlappingBlock(blocked, start, end) ==
    \E i \in 1..Len(blocked) : rangesOverlap(start, end, blocked[i].start, blocked[i].end)

\* A check that finds no appointment in the way.
OverlappingAppointmentNone(appts, start, end) == FALSE

\* The overlap test that leaves the status of the appointment out.
OverlappingAppointmentAnyStatus(appts, start, end) ==
    \E i \in 1..Len(appts) : rangesOverlap(start, end, appts[i].start, appts[i].end)

\* appointments.find((apt) => apt.start && apt.end && apt.status !== 'cancelled'
\*                            && rangesOverlap(start, end, apt.start, apt.end))
OverlappingAppointment(appts, start, end) ==
    \E i \in 1..Len(appts) :
        /\ appts[i].status # "cancelled"
        /\ rangesOverlap(start, end, appts[i].start, appts[i].end)

\* A click or a drag on the calendar, which no dialog or drawer covers.
HandleSelectInterval(slot) ==
    LET start == slot.start
        end == IF slot.action = "select" THEN slot.end
               ELSE slot.start + DEFAULT_APPT_MINUTES * 60
        duration == end - start
        isFullDaySpan ==
            duration >= 23 * Hour /\ GetHours(start) = 0 /\ GetMinutes(start) = 0
        isTopAreaClick == GetHours(start) < 2 /\ duration <= 2 * Hour
        isMultiDayTopDrag == duration >= 24 * Hour /\ GetHours(start) < 4
        isAllDayClick == isFullDaySpan \/ isTopAreaClick \/ isMultiDayTopDrag
        dayStart == StartOfDay(start)
        dayEnd == IF duration >= 24 * Hour
                  THEN EndOfDay(IF GetHours(end) = 0 /\ GetMinutes(end) = 0
                                THEN end - Day ELSE end)
                  ELSE EndOfDay(dayStart)
    IN /\ location = "schedule"
       /\ ~slotChoiceOpened /\ ~visitOpen
       /\ pendingSlotInfo' = IF isAllDayClick THEN [start |-> dayStart, end |-> dayEnd]
                             ELSE [start |-> start, end |-> end]
       /\ showBlockForm' = isAllDayClick
       /\ slotChoiceOpened' = TRUE
       /\ UNCHANGED <<appointmentSlot, appointmentDetails, genVars, storeVars, fetchVars,
                      notice, notPage>>

\* The dialog's 'Block time' and 'Back' buttons.
SetShowBlockForm(shown) ==
    /\ location = "schedule"
    /\ slotChoiceOpened /\ pendingSlotInfo # NoSlotInfo
    /\ showBlockForm = ~shown
    /\ showBlockForm' = shown
    /\ UNCHANGED <<pendingSlotInfo, slotChoiceOpened, appointmentSlot, appointmentDetails,
                   genVars, storeVars, fetchVars, notice, notPage>>

\* The dialog's onClose.
CloseSlotChoice ==
    /\ location = "schedule"
    /\ slotChoiceOpened
    /\ slotChoiceOpened' = FALSE
    /\ showBlockForm' = FALSE
    /\ UNCHANGED <<pendingSlotInfo, appointmentSlot, appointmentDetails, genVars, storeVars,
                   fetchVars, notice, notPage>>

\* CreateVisit as it mounts in the drawer on appointmentSlot.
MountCreateVisit(slot) ==
    /\ visitOpen' = TRUE
    /\ visitStart' = slot.start
    /\ visitEnd' = slot.end
    /\ isRecurring' = FALSE
    /\ recurrenceOccurrences' = 4
    /\ recurrenceIntervalWeeks' = 1
    /\ required' = {}

\* The dialog's 'New appointment' button.
HandleNewAppointmentFromChoice ==
    /\ location = "schedule"
    /\ slotChoiceOpened /\ ~showBlockForm
    /\ pendingSlotInfo # NoSlotInfo
    /\ IF OverlappingBlock(BlockedSlots(slots), pendingSlotInfo.start, pendingSlotInfo.end)
       THEN /\ notice' = Notice("This time is blocked", 0)
            /\ UNCHANGED <<dialogVars, visitVars>>
       ELSE IF OverlappingAppointment(appointments, pendingSlotInfo.start,
                                      pendingSlotInfo.end)
       THEN /\ notice' = Notice("This time overlaps with an existing appointment", 0)
            /\ UNCHANGED <<dialogVars, visitVars>>
       ELSE /\ slotChoiceOpened' = FALSE
            /\ showBlockForm' = FALSE
            /\ appointmentSlot' = [start |-> pendingSlotInfo.start,
                                   end |-> pendingSlotInfo.end]
            /\ MountCreateVisit(appointmentSlot')
            /\ UNCHANGED <<pendingSlotInfo, appointmentDetails, notice, encounters, submitRun,
                           location>>
    /\ UNCHANGED <<codecVars, findVars, existingBlocks, genVars, storeVars, fetchVars, cancelRun>>

\* What $book persists and answers for a $find slot: the Appointment over the
\* slot and the busy Slot under it.
BookResponse(slot) ==
    [appointment |-> [id |-> nextId, status |-> "booked", start |-> slot.start,
                      end |-> slot.end, seriesId |-> NoSeries],
     slot |-> [id |-> nextId + 1, status |-> "busy", start |-> slot.start,
               end |-> slot.end, transient |-> FALSE]]

\* The slots a click can land on: those the page hands to the calendar and the
\* buttons of the find pane.
ShownSlots == {slots[i] : i \in 1..Len(slots)} \cup {findSlots[i] : i \in 1..Len(findSlots)}

\* A background event that carries the transient identifier.
BackgroundSlotTransient(s) ==
    [id |-> NoId, status |-> "free", start |-> s.start, end |-> s.end, transient |-> TRUE]

\* The slot of the background event the calendar makes of an availability
\* range: {resourceType: 'Slot', status: 'free', start, end}.
BackgroundSlot(s) ==
    [id |-> NoId, status |-> "free", start |-> s.start, end |-> s.end, transient |-> FALSE]

\* The slots handleSelectEvent can hand to onSelectSlot: the events of the
\* slots shown and the background events of the availability ranges.
ClickableSlots ==
    ShownSlots \cup {BackgroundSlot(availabilitySlots[i]) : i \in 1..Len(availabilitySlots)}

\* handleSelectSlot with bookSlot: a $find slot is booked, a persisted block is
\* deleted once the user confirms, a free slot opens the visit form on the hour
\* from its start; ok tells whether the store accepts the $book or the delete.
HandleSelectSlot(slot, confirmed, ok) ==
    LET start == slot.start
        end == slot.start + Hour
        booked == BookResponse(slot)
    IN /\ location = "schedule"
       /\ ~slotChoiceOpened /\ ~visitOpen
       /\ slot \in ClickableSlots
       /\ IF slot.transient
          THEN IF ok
               THEN /\ Cardinality(storeSlots) < MaxSlots
                    /\ Cardinality(storeAppointments) < MaxAppointments
                    /\ storeAppointments' = storeAppointments \cup {booked.appointment}
                    /\ storeSlots' = storeSlots \cup {booked.slot}
                    /\ nextId' = nextId + 2
                    /\ findSlots' = SelectSeq(findSlots, LAMBDA s : s # slot)
                    /\ appointments' = <<booked.appointment>> \o appointments
                    \* the slots of the response that are not busy: none
                    /\ slots' = <<>> \o slots
                    /\ appointmentDetails' = booked.appointment
                    /\ UNCHANGED <<notice, appointmentSlot, visitVars, peerAppointments>>
               ELSE /\ notice' = Notice("error", 0)
                    /\ UNCHANGED <<storeVars, findSlots, appointments, peerAppointments, slots,
                                   appointmentDetails, appointmentSlot, visitVars>>
          ELSE IF slot.status = "busy-unavailable" /\ slot.id # NoId
          THEN /\ confirmed
               /\ IF ok
                  THEN /\ storeSlots' = {s \in storeSlots : s.id # slot.id}
                       /\ slots' = SelectSeq(slots, LAMBDA s : s.id # slot.id)
                       /\ UNCHANGED notice
                  ELSE /\ notice' = Notice("error", 0)
                       /\ UNCHANGED <<storeSlots, slots>>
               /\ UNCHANGED <<storeAppointments, nextId, findSlots, appointments, peerAppointments,
                              appointmentDetails, appointmentSlot, visitVars>>
          ELSE /\ slot.status = "free"
               /\ IF OverlappingAppointment(appointments, start, end)
                  THEN /\ notice' = Notice("This time overlaps with an existing appointment", 0)
                       /\ UNCHANGED <<appointmentSlot, visitVars>>
                  ELSE /\ appointmentSlot' = [start |-> start, end |-> end]
                       /\ MountCreateVisit(appointmentSlot')
                       /\ UNCHANGED <<notice, encounters, submitRun, location>>
               /\ UNCHANGED <<storeVars, findSlots, appointments, peerAppointments, slots, appointmentDetails>>
       /\ UNCHANGED <<pendingSlotInfo, slotChoiceOpened, showBlockForm, serviceType,
                      findRequests, slotSearches, appointmentSearch, genVars, codecVars,
                      existingBlocks, cancelRun>>

\* medplum.createResource<Slot>({status: 'busy-unavailable', start, end})
CreateBlock(start, end) ==
    /\ storeSlots' = storeSlots \cup {[id |-> nextId, status |-> "busy-unavailable",
                                       start |-> start, end |-> end,
                                       transient |-> FALSE]}
    /\ nextId' = nextId + 1

\* The block form's 'Block' button; ok tells whether the store accepts the create.
HandleBlockFromCalendar(ok) ==
    /\ location = "schedule"
    /\ slotChoiceOpened /\ showBlockForm
    /\ pendingSlotInfo # NoSlotInfo
    /\ Cardinality(storeSlots) < MaxSlots
    /\ IF OverlappingAppointment(appointments, pendingSlotInfo.start, pendingSlotInfo.end)
       THEN /\ notice' = Notice("You have an appointment during this time", 0)
            /\ UNCHANGED <<dialogVars, storeVars, slotSearches>>
       ELSE IF ok
       THEN /\ CreateBlock(pendingSlotInfo.start, pendingSlotInfo.end)
            /\ slotSearches' = RefreshSlots(storeSlots', range)
            /\ slotChoiceOpened' = FALSE
            /\ showBlockForm' = FALSE
            /\ pendingSlotInfo' = NoSlotInfo
            /\ notice' = Notice("Time blocked successfully", 0)
            /\ UNCHANGED <<storeAppointments, appointmentSlot, appointmentDetails>>
       ELSE /\ notice' = Notice("error", 0)
            /\ UNCHANGED <<dialogVars, storeVars, slotSearches>>
    /\ UNCHANGED <<genVars, slots, appointmentSearch, appointments, peerAppointments, notPage>>

\* A validation that looks at the dates only.
IsValidDatesOnly(block) == block.endDate >= block.startDate

\* The modal's block card: a BlockedTime with its dates as day numbers and its
\* times as instants of the day.
IsValid(block) ==
    LET dateOrderOk == block.endDate >= block.startDate
        sameDay == block.startDate = block.endDate
        timeOrderOk == block.allDay \/ ~sameDay \/ block.endTime > block.startTime
    IN IF block.allDay THEN dateOrderOk ELSE dateOrderOk /\ timeOrderOk

\* createBlockSlots: the interval of the one Slot it creates.
BlockInterval(block) ==
    IF block.allDay
    THEN [start |-> Midnight(block.startDate),                 \* T00:00:00
          end |-> Midnight(block.endDate) + Day - 1]            \* T23:59:59
    ELSE [start |-> Midnight(block.startDate) + block.startTime,
          end |-> Midnight(block.endDate) + block.endTime]

\* The card's 'Block' button (enabled when the card is valid): createBlockSlots,
\* then the refresh of the modal's list.
HandleBlockTime(block, ok) ==
    /\ location = "schedule"
    /\ IsValid(block)
    /\ Cardinality(storeSlots) < MaxSlots
    /\ IF ok
       THEN /\ CreateBlock(BlockInterval(block).start, BlockInterval(block).end)
            /\ notice' = Notice("Time Blocked", 1)
            /\ existingBlocks' = FetchExistingBlocks(storeSlots')
            /\ UNCHANGED storeAppointments
       ELSE /\ notice' = Notice("error", 0)
            /\ UNCHANGED <<storeVars, existingBlocks>>
    /\ UNCHANGED <<codecVars, findVars, genVars, fetchVars, dialogVars, visitVars, cancelRun>>

\* 'Block selected holidays': one all-day createBlockSlots per selected date,
\* in order; failAt is the create the store rejects (0: none).
RECURSIVE HolidaySlots(_, _)
HolidaySlots(dates, id) ==
    IF dates = <<>> THEN {}
    ELSE {[id |-> id, status |-> "busy-unavailable", transient |-> FALSE,
           start |-> BlockInterval([allDay |-> TRUE, startDate |-> Head(dates),
                                    endDate |-> Head(dates)]).start,
           end |-> BlockInterval([allDay |-> TRUE, startDate |-> Head(dates),
                                  endDate |-> Head(dates)]).end]}
         \cup HolidaySlots(Tail(dates), id + 1)

HandleBlockHolidays(selectedHolidays, failAt) ==
    LET made == IF failAt = 0 THEN selectedHolidays
                ELSE SubSeq(selectedHolidays, 1, failAt - 1)
    IN /\ location = "schedule"
       /\ Len(selectedHolidays) # 0
       /\ failAt <= Len(selectedHolidays)
       /\ Cardinality(storeSlots) + Len(selectedHolidays) <= MaxSlots
       /\ storeSlots' = storeSlots \cup HolidaySlots(made, nextId)
       /\ nextId' = nextId + Len(made)
       /\ IF failAt = 0
          THEN /\ notice' = Notice("Holidays Blocked", Len(selectedHolidays))
               /\ existingBlocks' = FetchExistingBlocks(storeSlots')
          ELSE /\ notice' = Notice("error", 0)
               /\ UNCHANGED existingBlocks
       /\ UNCHANGED <<storeAppointments, codecVars, findVars, genVars, fetchVars, dialogVars,
                      visitVars, cancelRun>>

(***************************************************************************)
(* CreateVisit: the form in the 'New Calendar Event' drawer.               *)
(***************************************************************************)
NoInstant == -1

\* No submit is running: isLoading is false.
NoSubmit == [isLoading |-> FALSE, slots |-> <<>>, idx |-> 0, recurrenceSeriesId |-> NoSeries]
RequiredFields == {"patient", "planDefinition", "class"}

\* The loop that counts its occurrences from one: the first is a period late.
getRecurringSlotsFromOne(firstStart, firstEnd, occurrences, intervalWeeks) ==
    LET durationMs == firstEnd - firstStart
    IN [k \in 1..occurrences |->
           [start |-> firstStart + k * intervalWeeks * 7 * Day,
            end |-> firstStart + k * intervalWeeks * 7 * Day + durationMs]]

\* getRecurringSlots: occurrences (start, end) pairs, intervalWeeks apart.
getRecurringSlots(firstStart, firstEnd, occurrences, intervalWeeks) ==
    LET durationMs == firstEnd - firstStart
    IN [k \in 1..occurrences |->
           \* start.setDate(start.getDate() + i * intervalWeeks * 7), i = k - 1
           [start |-> firstStart + (k - 1) * intervalWeeks * 7 * Day,
            end |-> firstStart + (k - 1) * intervalWeeks * 7 * Day + durationMs]]

\* utils/encounter createEncounter: the appointment it persists for a visit,
\* tagged with the series identifier it is given.
createEncounter(id, start, end, recurrenceSeriesId) ==
    [id |-> id, status |-> "booked", start |-> start, end |-> end,
     seriesId |-> recurrenceSeriesId]

\* setPatient, setPlanDefinitionData, setEncounterClass
SetRequiredField(f) ==
    /\ location = "schedule" /\ visitOpen
    /\ f \notin required
    /\ required' = required \cup {f}
    /\ UNCHANGED <<visitOpen, visitStart, visitEnd, isRecurring, recurrenceOccurrences,
                   recurrenceIntervalWeeks, encounters, submitRun, location, storeVars, notice,
                   notVisit>>

SetStart(value) ==
    /\ location = "schedule" /\ visitOpen
    /\ visitStart' = value
    /\ UNCHANGED <<visitOpen, visitEnd, isRecurring, recurrenceOccurrences,
                   recurrenceIntervalWeeks, required, encounters, submitRun, location, storeVars,
                   notice, notVisit>>

SetEnd(value) ==
    /\ location = "schedule" /\ visitOpen
    /\ visitEnd' = value
    /\ UNCHANGED <<visitOpen, visitStart, isRecurring, recurrenceOccurrences,
                   recurrenceIntervalWeeks, required, encounters, submitRun, location, storeVars,
                   notice, notVisit>>

SetIsRecurring(checked) ==
    /\ location = "schedule" /\ visitOpen
    /\ isRecurring' = checked
    /\ UNCHANGED <<visitOpen, visitStart, visitEnd, recurrenceOccurrences,
                   recurrenceIntervalWeeks, required, encounters, submitRun, location, storeVars,
                   notice, notVisit>>

\* The two inputs shown while 'Repeat weekly' is on.
SetRecurrenceOccurrences(v) ==
    /\ location = "schedule" /\ visitOpen /\ isRecurring
    /\ recurrenceOccurrences' = v
    /\ UNCHANGED <<visitOpen, visitStart, visitEnd, isRecurring, recurrenceIntervalWeeks,
                   required, encounters, submitRun, location, storeVars, notice, notVisit>>

SetRecurrenceIntervalWeeks(v) ==
    /\ location = "schedule" /\ visitOpen /\ isRecurring
    /\ recurrenceIntervalWeeks' = v
    /\ UNCHANGED <<visitOpen, visitStart, visitEnd, isRecurring, recurrenceOccurrences,
                   required, encounters, submitRun, location, storeVars, notice, notVisit>>

\* The drawer's close button.
CloseCreateVisit ==
    /\ location = "schedule" /\ visitOpen
    /\ visitOpen' = FALSE
    /\ UNCHANGED <<visitStart, visitEnd, isRecurring, recurrenceOccurrences,
                   recurrenceIntervalWeeks, required, encounters, submitRun, location, storeVars,
                   notice, notVisit>>

\* The identifier drawn only for a series of more than two.
RecurrenceSeriesIdOverTwo(recurring, length, uuid) ==
    IF recurring /\ length > 2 THEN uuid ELSE NoSeries

\* isRecurring && slots.length > 1 ? uuidv4() : undefined
RecurrenceSeriesId(recurring, length, uuid) ==
    IF recurring /\ length > 1 THEN uuid ELSE NoSeries

\* The form's submit.  blockedSlots and existingAppointments are the props the
\* page renders the form with; failAt is the createEncounter call the store
\* rejects (0: none).
HandleSubmit(failAt) ==
    LET blockedSlots == BlockedSlots(slots)
        existingAppointments == SelectSeq(appointments, LAMBDA a : a.status # "cancelled")
        occ == IF isRecurring
               THEN getRecurringSlots(visitStart, visitEnd, recurrenceOccurrences,
                                      recurrenceIntervalWeeks)
               ELSE <<[start |-> visitStart, end |-> visitEnd]>>
        recurrenceSeriesId == RecurrenceSeriesId(isRecurring, Len(occ), nextId)
        firstId == IF recurrenceSeriesId = NoSeries THEN nextId ELSE nextId + 1
        made == IF failAt = 0 THEN Len(occ) ELSE failAt - 1
        created == [k \in 1..made |->
                       createEncounter(firstId + k - 1, occ[k].start, occ[k].end,
                                       recurrenceSeriesId)]
    IN /\ location = "schedule" /\ visitOpen
       /\ IF required # RequiredFields \/ visitStart = NoInstant \/ visitEnd = NoInstant
          THEN /\ failAt = 0
               /\ notice' = Notice("Please fill out required fields.", 0)
               /\ UNCHANGED <<storeVars, encounters, submitRun, location>>
          ELSE IF OverlappingBlock(blockedSlots, visitStart, visitEnd)
          THEN /\ failAt = 0
               /\ notice' = Notice("This time is blocked", 0)
               /\ UNCHANGED <<storeVars, encounters, submitRun, location>>
          ELSE IF OverlappingAppointment(existingAppointments, visitStart, visitEnd)
          THEN /\ failAt = 0
               /\ notice' = Notice("This time overlaps with an existing appointment", 0)
               /\ UNCHANGED <<storeVars, encounters, submitRun, location>>
          ELSE /\ failAt <= Len(occ)
               /\ Cardinality(storeAppointments) + Len(occ) <= MaxAppointments
               /\ storeAppointments' =
                     storeAppointments \cup {created[k] : k \in 1..made}
               \* a uuid that tags nothing leaves no trace
               /\ nextId' = IF made = 0 THEN nextId ELSE firstId + made
               /\ encounters' = created
               /\ UNCHANGED submitRun
               /\ IF failAt = 0
                  THEN /\ notice' = Notice(IF made = 1 THEN "Visit created"
                                           ELSE "recurring visits created", made)
                       /\ location' = "encounter"      \* navigate(...)
                  ELSE /\ notice' = Notice("error", 0)
                       /\ UNCHANGED location
               /\ UNCHANGED storeSlots
       /\ UNCHANGED <<visitOpen, visitStart, visitEnd, isRecurring, recurrenceOccurrences,
                      recurrenceIntervalWeeks, required, notVisit>>

(***************************************************************************)
(* Cancelling a recurring series: from the calendar's context menu         *)
(* (SchedulePage.handleCancelSeries) or from the details drawer            *)
(* (AppointmentDetails.handleCancelSeries), both through                   *)
(* utils/encounter cancelRecurrenceSeries.                                 *)
(***************************************************************************)
\* outcomes records, member by member, what the store answered.
NoRun == [via |-> "none", members |-> <<>>, idx |-> 0, cancelledCount |-> 0,
          outcomes |-> <<>>]

\* getRecurrenceSeriesId
getRecurrenceSeriesId(appointment) == appointment.seriesId

\* The members cancelRecurrenceSeries visits: the appointments of the series.
SeriesMembers(seriesId) ==
    LET found == ById({a \in storeAppointments : a.seriesId = seriesId})
    IN [k \in 1..Len(found) |-> found[k].id]

\* handleSelectAppointment: the details drawer opens on an appointment that
\* has no Encounter, the page navigates to the Encounter of one that has.
HandleSelectAppointment(appointment, hasEncounter) ==
    /\ location = "schedule"
    /\ cancelRun = NoRun
    /\ \E i \in 1..Len(appointments) : appointments[i] = appointment
    /\ IF hasEncounter
       THEN location' = "encounter" /\ UNCHANGED appointmentDetails
       ELSE appointmentDetails' = appointment /\ UNCHANGED location
    /\ UNCHANGED <<pendingSlotInfo, slotChoiceOpened, showBlockForm, appointmentSlot,
                   visitOpen, visitStart, visitEnd, isRecurring, recurrenceOccurrences,
                   recurrenceIntervalWeeks, required, encounters, submitRun, codecVars, findVars,
                   existingBlocks, genVars, storeVars, fetchVars, notice, cancelRun>>

\* Either handleCancelSeries up to its await of cancelRecurrenceSeries; found
\* tells whether the search for the members of the series succeeds (when it
\* does not, cancelRecurrenceSeries throws and the handler shows the error).
StartCancelSeries(via, appointment, found) ==
    /\ location = "schedule"
    /\ cancelRun = NoRun
    /\ getRecurrenceSeriesId(appointment) # NoSeries
    /\ IF found
       THEN /\ cancelRun' = [via |-> via,
                             members |-> SeriesMembers(getRecurrenceSeriesId(appointment)),
                             idx |-> 1, cancelledCount |-> 0, outcomes |-> <<>>]
            /\ UNCHANGED notice
       ELSE /\ notice' = Notice("error", 0)
            /\ UNCHANGED cancelRun
    /\ UNCHANGED <<codecVars, findVars, existingBlocks, genVars, storeVars, fetchVars, dialogVars,
                   visitVars>>

\* The calendar's 'Cancel series' on one of the appointments shown.
HandleCancelSeries(appointment, found) ==
    /\ \E i \in 1..Len(appointments) : appointments[i] = appointment
    /\ StartCancelSeries("page", appointment, found)

\* The drawer's 'Cancel series' on the appointment it shows.
DetailsHandleCancelSeries(found) ==
    /\ appointmentDetails # NoAppointment
    /\ StartCancelSeries("details", appointmentDetails, found)

\* cancelRecurrenceSeries: one turn of its loop; ok tells whether the store
\* accepts the cancellation of the member.  A member that fails is skipped.
CancelNextMember(ok) ==
    LET id == cancelRun.members[cancelRun.idx]
    IN /\ cancelRun # NoRun
       /\ cancelRun.idx <= Len(cancelRun.members)
       /\ IF ok
          THEN /\ storeAppointments' =
                     {IF a.id = id THEN [a EXCEPT !.status = "cancelled"] ELSE a :
                         a \in storeAppointments}
               /\ cancelRun' = [cancelRun EXCEPT !.idx = @ + 1,
                                                 !.cancelledCount = @ + 1,
                                                 !.outcomes = Append(@, TRUE)]
          ELSE /\ cancelRun' = [cancelRun EXCEPT !.idx = @ + 1,
                                                 !.outcomes = Append(@, FALSE)]
               /\ UNCHANGED storeAppointments
       /\ UNCHANGED <<storeSlots, nextId, codecVars, findVars, existingBlocks, genVars, fetchVars,
                      dialogVars, notice, visitVars>>

\* setAppointmentsRefreshTrigger((t) => t + 1): the Appointment search runs again.
RefreshAppointments ==
    IF range = NoRange THEN appointmentSearch
    ELSE [active |-> TRUE, result |-> SearchAppointments(storeAppointments, range)]

\* The notification that reports every member of the series as cancelled.
CancelledNoticeAllMembers(run) ==
    Notice(IF Len(run.members) = 1 THEN "Cancelled appointment in the series"
           ELSE "Cancelled appointments in the series", Len(run.members))

\* `Cancelled ${cancelledCount} appointment${cancelledCount === 1 ? '' : 's'}
\*  in the series.`
CancelledNotice(run) ==
    Notice(IF run.cancelledCount = 1 THEN "Cancelled appointment in the series"
           ELSE "Cancelled appointments in the series", run.cancelledCount)

\* Either handleCancelSeries after cancelRecurrenceSeries returned
\* {cancelledCount}; the drawer also hands the appointment it shows, marked
\* cancelled, to onUpdate (handleAppointmentUpdate).
CancelSeriesDone ==
    LET updated == [appointmentDetails EXCEPT !.status = "cancelled"]
    IN /\ cancelRun # NoRun
       /\ cancelRun.idx > Len(cancelRun.members)
       /\ IF cancelRun.via = "details"
          THEN /\ appointments' = [i \in 1..Len(appointments) |->
                                      IF appointments[i].id = updated.id THEN updated
                                      ELSE appointments[i]]
               /\ appointmentDetails' = updated
          ELSE UNCHANGED <<appointments, appointmentDetails>>
       /\ appointmentSearch' = RefreshAppointments
       /\ notice' = CancelledNotice(cancelRun)
       /\ cancelRun' = NoRun
       /\ UNCHANGED <<pendingSlotInfo, slotChoiceOpened, showBlockForm, appointmentSlot,
                      slotSearches, slots, peerAppointments, codecVars, findVars, existingBlocks, genVars, storeVars,
                      visitVars>>

(***************************************************************************)
(* The availability form: DayRow, TimeWindowRow, AvailabilityFields, and   *)
(* the modal's save (handleSubmit) and re-open (useEffect on opened).      *)
(***************************************************************************)
\* The times typed into the Start and End inputs.
StartChoices == {HM(0, 0), HM(13, 0)}
EndChoices == {HM(0, 31), HM(17, 0)}

CanEdit == cphase \in {"form", "parsed"} /\ nEdits < MaxEdits

\* AvailabilityFields.updateDay, then the state the edit leaves.
UpdateDay(day, ds) ==
    /\ weekSchedule' = [weekSchedule EXCEPT ![day] = ds]
    /\ nEdits' = nEdits + 1
    /\ cphase' = "form"
    /\ UNCHANGED <<availability, savedWeek, serviceTypeOverrides, formParams, notCodec>>

\* DayRow: the day's Switch.
ToggleDay(day) ==
    /\ CanEdit
    /\ LET ds == weekSchedule[day]
           checked == ~ds.enabled
       IN UpdateDay(day, [enabled |-> checked,
                          timeWindows |-> IF checked /\ ds.timeWindows = <<>>
                                          THEN <<DEFAULT_WINDOW>>
                                          ELSE ds.timeWindows])

\* DayRow.addWindow (the Add button of an enabled day).
AddWindow(day) ==
    /\ CanEdit
    /\ weekSchedule[day].enabled
    /\ UpdateDay(day, [weekSchedule[day] EXCEPT
                         !.timeWindows = Append(@, [startTime |-> HM(13, 0),
                                                    endTime |-> HM(17, 0)])])

RemoveAt(seq, idx) == [j \in 1..(Len(seq) - 1) |-> IF j < idx THEN seq[j] ELSE seq[j + 1]]

\* DayRow.removeWindow (the trash icon, shown when the day has several windows).
RemoveWindow(day, idx) ==
    /\ CanEdit
    /\ weekSchedule[day].enabled
    /\ Len(weekSchedule[day].timeWindows) > 1
    /\ idx \in 1..Len(weekSchedule[day].timeWindows)
    /\ LET next == RemoveAt(weekSchedule[day].timeWindows, idx)
       IN UpdateDay(day, [weekSchedule[day] EXCEPT
                            !.timeWindows = IF Len(next) > 0 THEN next
                                            ELSE <<DEFAULT_WINDOW>>])

\* TimeWindowRow: the Start input sets the end one hour after the new start.
EditStart(day, idx, newStart) ==
    /\ CanEdit
    /\ weekSchedule[day].enabled
    /\ idx \in 1..Len(weekSchedule[day].timeWindows)
    /\ LET newEnd == <<(newStart[1] + 1) % 24, newStart[2]>>
       IN UpdateDay(day, [weekSchedule[day] EXCEPT
                            !.timeWindows[idx] = [startTime |-> newStart,
                                                  endTime |-> newEnd]])

\* TimeWindowRow: the End input.
EditEnd(day, idx, newEnd) ==
    /\ CanEdit
    /\ weekSchedule[day].enabled
    /\ idx \in 1..Len(weekSchedule[day].timeWindows)
    /\ UpdateDay(day, [weekSchedule[day] EXCEPT !.timeWindows[idx].endTime = newEnd])

\* AvailabilityFields.copyFirstToAll
CopyFirstToAll ==
    /\ CanEdit
    /\ \E i \in 1..Len(ORDERED_DAYS) :
         /\ weekSchedule[ORDERED_DAYS[i]].enabled
         /\ \A j \in 1..(i - 1) : ~weekSchedule[ORDERED_DAYS[j]].enabled
         /\ weekSchedule' =
               [d \in DayOfWeek |->
                  IF weekSchedule[d].enabled
                  THEN [weekSchedule[d] EXCEPT
                          !.timeWindows = weekSchedule[ORDERED_DAYS[i]].timeWindows]
                  ELSE weekSchedule[d]]
    /\ nEdits' = nEdits + 1
    /\ cphase' = "form"
    /\ UNCHANGED <<availability, savedWeek, serviceTypeOverrides, formParams, notCodec>>

\* The code of a CodeableConcept whose coding has code ''.
NoCode == ""

\* The service types offered by the CodeableConceptInput.
ServiceTypeChoices == {"visit", "checkup"}

\* The form values of a block besides its week: minutes unless a unit says
\* otherwise; the values parseScheduleExtensions gives a schedule without blocks.
DefaultParams ==
    [durationValue |-> 30, durationUnit |-> "min", bufferBefore |-> 0, bufferAfter |-> 0,
     alignmentInterval |-> 0, alignmentOffset |-> 0, bookingLimits |-> <<>>,
     timezone |-> ""]

BookingLimit(frequency) == [frequency |-> frequency, period |-> 1, periodUnit |-> "d"]

\* What the inputs of AvailabilityFields hand to their setters, field by field
\* (a NumberInput hands over what is typed before it clamps on blur).
ParamInputs ==
    [durationValue |-> {1, 60}, durationUnit |-> {"min", "h"},
     bufferBefore |-> {-5, 0, 10}, bufferAfter |-> {0, 5},
     alignmentInterval |-> {0, 15}, alignmentOffset |-> {0, 5},
     bookingLimits |-> {<<>>, <<BookingLimit(0)>>, <<BookingLimit(2)>>,
                        <<BookingLimit(-1), BookingLimit(3)>>},
     timezone |-> {"", "America/New_York"}]

\* bookingLimits.forEach((limit) => { if (limit.frequency > 0) push })
StoredLimits(bookingLimits) == SelectSeq(bookingLimits, LAMBDA limit : limit.frequency > 0)

\* The sub-extensions pushed whatever their values.
SchedulingSubsAll(values) ==
    [duration |-> [value |-> values.durationValue, unit |-> values.durationUnit],
     bufferBefore |-> [value |-> values.bufferBefore, unit |-> "min"],
     bufferAfter |-> [value |-> values.bufferAfter, unit |-> "min"],
     alignmentInterval |-> [value |-> values.alignmentInterval, unit |-> "min"],
     alignmentOffset |-> [value |-> values.alignmentOffset, unit |-> "min"],
     bookingLimit |-> values.bookingLimits,
     timezone |-> values.timezone]

\* The sub-extensions of a block besides serviceType and availability, as the
\* record of those that are pushed: duration always, a buffer or the
\* alignment interval when > 0, the offset when interval and offset are > 0,
\* the limits whose frequency is > 0, the timezone when not empty.
SchedulingSubs(values) ==
    LET urls == {"duration"}
                \cup (IF values.bufferBefore > 0 THEN {"bufferBefore"} ELSE {})
                \cup (IF values.bufferAfter > 0 THEN {"bufferAfter"} ELSE {})
                \cup (IF values.alignmentInterval > 0 THEN {"alignmentInterval"} ELSE {})
                \cup (IF values.alignmentInterval > 0 /\ values.alignmentOffset > 0
                      THEN {"alignmentOffset"} ELSE {})
                \cup (IF StoredLimits(values.bookingLimits) # <<>>
                      THEN {"bookingLimit"} ELSE {})
                \cup (IF values.timezone # "" THEN {"timezone"} ELSE {})
    IN [url \in urls |->
          CASE url = "duration" ->
                 [value |-> values.durationValue, unit |-> values.durationUnit]
            [] url = "bookingLimit" -> StoredLimits(values.bookingLimits)
            [] url = "timezone" -> values.timezone
            [] OTHER -> [value |-> values[url], unit |-> "min"]]

\* A stored duration in minutes: unit === 'h' ? value * 60 : value.
InMinutes(duration) == IF duration.unit = "h" THEN duration.value * 60 ELSE duration.value

\* parseScheduleExtensions: the form values of one block.
ParseParams(block) ==
    LET Minutes(url) == IF url \in DOMAIN block THEN InMinutes(block[url]) ELSE 0
    IN [durationValue |-> IF "duration" \in DOMAIN block THEN block.duration.value ELSE 30,
        durationUnit |-> IF "duration" \in DOMAIN block THEN block.duration.unit ELSE "min",
        bufferBefore |-> Minutes("bufferBefore"),
        bufferAfter |-> Minutes("bufferAfter"),
        alignmentInterval |-> Minutes("alignmentInterval"),
        alignmentOffset |-> Minutes("alignmentOffset"),
        bookingLimits |-> IF "bookingLimit" \in DOMAIN block THEN block.bookingLimit
                          ELSE <<>>,
        timezone |-> IF "timezone" \in DOMAIN block THEN block.timezone ELSE ""]

\* updateDefault(patch) from an input of the Availability tab.
UpdateDefault(field, value) ==
    /\ CanEdit
    /\ field = "alignmentOffset" => formParams.alignmentInterval # 0   \* disabled
    /\ formParams' = [formParams EXCEPT ![field] = value]
    /\ nEdits' = nEdits + 1
    /\ cphase' = "form"
    /\ UNCHANGED <<weekSchedule, availability, savedWeek, serviceTypeOverrides, notCodec>>

\* updateOverride(index, patch) from an input of an override's panel.
UpdateOverride(index, field, value) ==
    /\ CanEdit
    /\ index \in 1..Len(serviceTypeOverrides)
    /\ field = "alignmentOffset" =>
          serviceTypeOverrides[index].params.alignmentInterval # 0
    /\ serviceTypeOverrides' =
          [serviceTypeOverrides EXCEPT ![index].params[field] = value]
    /\ nEdits' = nEdits + 1
    /\ cphase' = "form"
    /\ UNCHANGED <<weekSchedule, availability, savedWeek, formParams, notCodec>>

\* An override of the form.
Override(st, week, params) == [serviceType |-> st, weekSchedule |-> week, params |-> params]

\* The Add Override button: a new override with an empty code and the default
\* block's week, duration, buffers and alignment, without limits or timezone.
AddOverride ==
    /\ CanEdit
    /\ serviceTypeOverrides' =
          Append(serviceTypeOverrides,
                 Override(NoCode, weekSchedule,
                          [formParams EXCEPT !.bookingLimits = <<>>, !.timezone = ""]))
    /\ nEdits' = nEdits + 1
    /\ cphase' = "form"
    /\ UNCHANGED <<weekSchedule, availability, savedWeek, formParams, notCodec>>

\* updateOverride(index, {serviceType: value}) from the CodeableConceptInput.
SetOverrideServiceType(index, value) ==
    /\ CanEdit
    /\ index \in 1..Len(serviceTypeOverrides)
    /\ serviceTypeOverrides' = [serviceTypeOverrides EXCEPT ![index].serviceType = value]
    /\ nEdits' = nEdits + 1
    /\ cphase' = "form"
    /\ UNCHANGED <<weekSchedule, availability, savedWeek, formParams, notCodec>>

\* The trash icon of an override: serviceTypeOverrides.filter((_, i) => i !== index).
RemoveOverride(index) ==
    /\ CanEdit
    /\ index \in 1..Len(serviceTypeOverrides)
    /\ serviceTypeOverrides' = RemoveAt(serviceTypeOverrides, index)
    /\ nEdits' = nEdits + 1
    /\ cphase' = "form"
    /\ UNCHANGED <<weekSchedule, availability, savedWeek, formParams, notCodec>>

\* buildSchedulingParametersExtensions: the default block, then one block per
\* override in the order of the form.
buildSchedulingParametersExtensions(week, params, overrides) ==
    <<Block(NoServiceType, buildAvailabilityExtensions(week)) @@ SchedulingSubs(params)>> \o
    [i \in 1..Len(overrides) |->
        Block(overrides[i].serviceType,
              buildAvailabilityExtensions(overrides[i].weekSchedule))
          @@ SchedulingSubs(overrides[i].params)]

\* parseScheduleExtensions: the overrides decoded from the blocks that carry a
\* serviceType.
ParseOverrides(sched) ==
    LET keep == SelectSeq(sched, LAMBDA b : b.serviceType # NoServiceType)
    IN [i \in 1..Len(keep) |->
          Override(keep[i].serviceType,
                   parseWeekScheduleFromExtension(keep[i].availability),
                   ParseParams(keep[i]))]

\* parseScheduleExtensions: the form values of the default block, or the
\* defaults when the schedule has none.
ParseDefault(sched) ==
    IF DefaultExtIndex(sched) = 0 THEN DefaultParams
    ELSE ParseParams(sched[DefaultExtIndex(sched)])

\* SetAvailabilityModal.handleSubmit: the blocks built from the form replace the
\* schedule's SchedulingParameters blocks.
SaveAvailability ==
    /\ cphase \in {"form", "parsed"}
    /\ availability' = buildAvailabilityExtensions(weekSchedule)
    /\ savedWeek' = weekSchedule
    /\ cphase' = "saved"
    /\ OnSave(buildSchedulingParametersExtensions(weekSchedule, formParams,
                                                  serviceTypeOverrides))
    /\ notice' = Notice("Availability saved", 0)
    /\ UNCHANGED <<weekSchedule, nEdits, serviceTypeOverrides, formParams, existingBlocks, range,
                   storeVars, slots,
                   appointmentSearch, appointments, peerAppointments, findSlots, dialogVars, visitVars,
                   cancelRun>>

\* The modal opened on the saved Schedule: formValues = parseScheduleExtensions.
ReopenModal ==
    /\ cphase = "saved"
    /\ weekSchedule' = parseWeekScheduleFromExtension(availability)
    /\ serviceTypeOverrides' = ParseOverrides(schedule)
    /\ formParams' = ParseDefault(schedule)
    /\ cphase' = "parsed"
    /\ existingBlocks' = FetchExistingBlocks(storeSlots)
    /\ UNCHANGED <<availability, savedWeek, nEdits, genVars, storeVars, fetchVars,
                   findVars, dialogVars, notice, visitVars, cancelRun>>

CodecStart ==
    /\ weekSchedule = makeDefaultWeek
    /\ availability = <<>>
    /\ savedWeek = AllOff
    /\ cphase = "form"
    /\ nEdits = 0
    /\ serviceTypeOverrides = <<>>
    /\ formParams = DefaultParams


(***************************************************************************)
(* Properties of the recurrence codec.                                     *)
(***************************************************************************)
SeqRange(seq) == {seq[i] : i \in 1..Len(seq)}

BagOfSeq(seq) ==
    [x \in SeqRange(seq) |-> Cardinality({i \in 1..Len(seq) : seq[i] = x})]

\* The (start minute, duration in minutes) pairs a day holds, as numbers.
WindowPair(tw) == <<timeToMinutes(tw.startTime), timeWindowDurationHours(tw) * 60>>

WindowPairs(ds) == [i \in 1..Len(ds.timeWindows) |-> WindowPair(ds.timeWindows[i])]

EnabledDays(week) == {d \in DayOfWeek : week[d].enabled}

\* C1: decoding what the encoder produced for a week w gives, for every day
\* enabled in w, the same multiset of (start minute, duration minutes) pairs
\* as w holds for that day.
C1_RoundTripMultiset ==
    cphase = "parsed" =>
        \A d \in EnabledDays(savedWeek) :
            BagOfSeq(WindowPairs(weekSchedule[d])) = BagOfSeq(WindowPairs(savedWeek[d]))

EntryKey(a) == <<SeqRange(a.dayOfWeek), MathRound(a.duration * 100)>>

SharesOneWindow(week) ==
    /\ EnabledDays(week) # {}
    /\ \A d \in EnabledDays(week) : Len(week[d].timeWindows) = 1
    /\ \A d, e \in EnabledDays(week) : week[d].timeWindows = week[e].timeWindows

\* C8: the saved availability entries have pairwise distinct (day set,
\* duration) keys, and when all enabled days share one identical single
\* window they collapse into exactly one entry, covering all those days
\* with that window's start time.
C8_Compaction ==
    /\ \A i, j \in 1..Len(availability) :
          EntryKey(availability[i]) = EntryKey(availability[j]) => i = j
    /\ SharesOneWindow(savedWeek) =>
          /\ Len(availability) = 1
          /\ SeqRange(availability[1].dayOfWeek) = EnabledDays(savedWeek)
          /\ Len(availability[1].dayOfWeek) = Cardinality(EnabledDays(savedWeek))
          /\ Len(availability[1].timeOfDay) = 1

\* Mon..Fri, all 09:00-17:00, saved as one entry for the five weekdays.
C8_Witness ==
    /\ cphase = "saved"
    /\ savedWeek = makeDefaultWeek
    /\ Len(availability) = 1
    /\ SeqRange(availability[1].dayOfWeek) = {"mon", "tue", "wed", "thu", "fri"}
    /\ availability[1].timeOfDay = <<<<9, 0, 0>>>>
    /\ availability[1].duration = Num(8)

(***************************************************************************)
(* SchedulePage: the calendar's range and the virtual availability slots.  *)
(***************************************************************************)
\* The sub-extensions a block can carry besides serviceType and availability:
\* slot duration, buffers, the alignment grid, the booking limits and the
\* timezone, as a save writes them.
ParamChoices ==
    {SchedulingSubs(values) :
        values \in [durationValue : {30, 60}, durationUnit : {"min"},
                    bufferBefore : {0, 10}, bufferAfter : {0, 5},
                    alignmentInterval : {0, 15}, alignmentOffset : {0, 5},
                    bookingLimits : {<<>>, <<BookingLimit(2)>>},
                    timezone : {"", "America/New_York"}]}

\* The block with these sub-extensions added.
WithParams(block, params) == block @@ params

\* The Schedules the page is opened on.
ScheduleChoices ==
    LET weekdays == buildAvailabilityExtensions(makeDefaultWeek)
        split == <<Repeat(<<"mon", "wed">>, <<<<9, 0, 0>>, <<13, Num(30), 0>>>>, Num(2), "h"),
                   Repeat(<<"sun", "mon">>, <<<<10, 0, 0>>>>, Num(90), "min")>>
    IN {<<>>,
        <<Block(NoServiceType, weekdays)>>,
        <<Block(NoServiceType, split)>>,
        <<Block("visit", split), Block("checkup", weekdays)>>,
        <<Block("visit", weekdays), Block(NoServiceType, split)>>,
        <<WithParams(Block(NoServiceType, weekdays),
                     SchedulingSubs([durationValue |-> 30, durationUnit |-> "min",
                                     bufferBefore |-> 10, bufferAfter |-> 5,
                                     alignmentInterval |-> 15, alignmentOffset |-> 5,
                                     bookingLimits |-> <<BookingLimit(2)>>,
                                     timezone |-> "America/New_York"]))>>}

\* What react-big-calendar hands to handleRangeChange: the array of the days
\* shown (week and day views) or a {start, end} object (the other views).
RangeInputs ==
    {[dates |-> [i \in 1..7 |-> Midnight(a + i - 1)]] : a \in 0..(MaxDay - 7)}
    \cup {[dates |-> <<Midnight(a)>>] : a \in 0..(MaxDay - 1)}
    \cup UNION {{[start |-> Midnight(a), end |-> e] :
                    e \in UNION {{EndOfDay(Midnight(b)), Midnight(b) + 12 * Hour} :
                                    b \in a..(MaxDay - 1)}} :
                a \in 0..(MaxDay - 1)}

\* The page before its first range is known, on an empty store.
GenStart ==
    /\ schedule = <<>>
    /\ range = NoRange
    /\ availabilitySlots = <<>>

StoreStart ==
    /\ storeSlots = {}
    /\ storeAppointments = {}
    /\ nextId = 1

FetchStart ==
    /\ slotSearches = {}
    /\ slots = <<>>
    /\ appointmentSearch = NoSearch
    /\ appointments = <<>>
    /\ peerAppointments = <<>>
    /\ findSlots = <<>>
    /\ serviceType = NoSelection
    /\ findRequests = {}

DialogStart ==
    /\ pendingSlotInfo = NoSlotInfo
    /\ slotChoiceOpened = FALSE
    /\ showBlockForm = FALSE
    /\ appointmentSlot = NoRange
    /\ appointmentDetails = NoAppointment
    /\ notice = NoNotice

VisitStart ==
    /\ visitOpen = FALSE
    /\ visitStart = NoInstant
    /\ visitEnd = NoInstant
    /\ isRecurring = FALSE
    /\ recurrenceOccurrences = 4
    /\ recurrenceIntervalWeeks = 1
    /\ required = {}
    /\ encounters = <<>>
    /\ submitRun = NoSubmit
    /\ location = "schedule"

\* The page showing rng of a store that holds storedSlots and storedAppointments,
\* every search delivered.
PageLoaded(sched, rng, storedSlots, storedAppointments) ==
    /\ schedule = sched
    /\ range = rng
    /\ availabilitySlots = generateAvailabilitySlots(sched, rng)
    /\ storeSlots = storedSlots
    /\ storeAppointments = storedAppointments
    /\ nextId = Cardinality(storedSlots) + Cardinality(storedAppointments) + 1
    /\ slotSearches = {}
    /\ slots = mergeOverlappingSlots(SearchSlots(storedSlots, rng))
    /\ appointmentSearch = NoSearch
    /\ appointments = SearchAppointments(storedAppointments, rng)
    /\ peerAppointments = SearchAppointments(storedAppointments, rng)
    /\ serviceType = (IF PaneMounted(sched, rng) THEN InitialServiceType(sched)
                      ELSE NoSelection)
    /\ findSlots = (IF serviceType = NoSelection THEN <<>>
                    ELSE FindResult(FindRequest(serviceType, rng)))
    /\ findRequests = {}

Slot(id, status, start, end, transient) ==
    [id |-> id, status |-> status, start |-> start, end |-> end, transient |-> transient]

Appointment(id, status, start, end, seriesId) ==
    [id |-> id, status |-> status, start |-> start, end |-> end, seriesId |-> seriesId]

\* Day d at h o'clock and m minutes.
At(d, h, m) == Midnight(d) + h * Hour + m * 60

CodecInit ==
    /\ CodecStart /\ existingBlocks = <<>>
    /\ GenStart /\ StoreStart /\ FetchStart /\ DialogStart /\ VisitStart
    /\ cancelRun = NoRun

CodecNext ==
    \/ \E day \in DayOfWeek : ToggleDay(day)
    \/ \E day \in DayOfWeek : AddWindow(day)
    \/ \E day \in DayOfWeek, idx \in 1..(MaxEdits + 2) : RemoveWindow(day, idx)
    \/ \E day \in DayOfWeek, idx \in 1..(MaxEdits + 2), t \in StartChoices :
          EditStart(day, idx, t)
    \/ \E day \in DayOfWeek, idx \in 1..(MaxEdits + 2), t \in EndChoices :
          EditEnd(day, idx, t)
    \/ CopyFirstToAll
    \/ SaveAvailability
    \/ ReopenModal

SpecCodec == CodecInit /\ [][CodecNext]_vars

(***************************************************************************)
(* The generator: the page on each Schedule, shown over each range.        *)
(***************************************************************************)
GenInit ==
    /\ CodecStart /\ existingBlocks = <<>>
    /\ schedule \in ScheduleChoices
    /\ range = NoRange
    /\ availabilitySlots = <<>>
    /\ StoreStart /\ FetchStart /\ DialogStart /\ VisitStart
    /\ cancelRun = NoRun

GenNext ==
    \/ \E newRange \in RangeInputs : HandleRangeChange(newRange)
    \/ \E updatedSchedule \in ScheduleChoices : SetSchedule(updatedSchedule)

SpecGen == GenInit /\ [][GenNext]_vars

\* The weekday code of day d (day 0 is a Monday).
WeekdayOf(d) == ORDERED_DAYS[(d % 7) + 1]

\* The days that lie fully or partially inside [rng.start, rng.end).
DaysInRange(rng) ==
    {d \in 0..(MaxDay + 1) : Midnight(d) < rng.end /\ Midnight(d + 1) > rng.start}

DefaultAvailability(sched) ==
    IF \E i \in 1..Len(sched) : sched[i].serviceType = NoServiceType
    THEN sched[CHOOSE i \in 1..Len(sched) : sched[i].serviceType = NoServiceType].availability
    ELSE <<>>

RepeatSeconds(repeat) ==
    IF repeat.durationUnit = "h" THEN (repeat.duration * Hour) \div Q
    ELSE (repeat.duration * 60) \div Q

\* The slot the configuration declares on day d for time j of entry k.
DeclaredSlot(sched, d, k, j) ==
    LET repeat == DefaultAvailability(sched)[k]
        time == repeat.timeOfDay[j]
        start == Midnight(d) + time[1] * Hour + (time[2] * 60) \div Q
    IN <<start, start + RepeatSeconds(repeat)>>

Declared(sched, d) ==
    {<<k, j>> \in (1..Len(DefaultAvailability(sched))) \X (1..2) :
        /\ j <= Len(DefaultAvailability(sched)[k].timeOfDay)
        /\ WeekdayOf(d) \in SeqRange(DefaultAvailability(sched)[k].dayOfWeek)}

\* C5: a virtual slot is anchored on a day iff the day lies fully or partly
\* inside [range.start, range.end) and its weekday is configured in the default
\* block, with exactly one slot per configured time of each matching entry,
\* starting at day + window start and lasting the window's duration; so no slot
\* is anchored on the day that begins at a range.end falling on a midnight.
C5_DayCoverage ==
    range # NoRange =>
        /\ \A i \in 1..Len(availabilitySlots) :
              \E d \in DaysInRange(range) : \E kj \in Declared(schedule, d) :
                 <<availabilitySlots[i].start, availabilitySlots[i].end>>
                    = DeclaredSlot(schedule, d, kj[1], kj[2])
        /\ \A d \in DaysInRange(range) : \A kj \in Declared(schedule, d) :
              Cardinality({i \in 1..Len(availabilitySlots) :
                              <<availabilitySlots[i].start, availabilitySlots[i].end>>
                                 = DeclaredSlot(schedule, d, kj[1], kj[2])})
                = Cardinality({x \in Declared(schedule, d) :
                                  DeclaredSlot(schedule, d, x[1], x[2])
                                     = DeclaredSlot(schedule, d, kj[1], kj[2])})

(***************************************************************************)
(* The Slot and Appointment fetches of the page while the range and the    *)
(* schedule change, on a store that holds slots on three days.             *)
(***************************************************************************)
WeekdaysSchedule == <<Block(NoServiceType, buildAvailabilityExtensions(makeDefaultWeek))>>

FetchRanges ==
    {[dates |-> <<Midnight(a)>>] : a \in 0..2}
    \cup {[dates |-> [i \in 1..7 |-> Midnight(i - 1)]]}

FetchInit ==
    /\ CodecStart /\ existingBlocks = <<>>
    /\ schedule = WeekdaysSchedule
    /\ range = NoRange
    /\ availabilitySlots = <<>>
    /\ storeSlots = {Slot(1, "busy-unavailable", At(0, 10, 0), At(0, 11, 0), FALSE),
                     Slot(2, "busy-unavailable", At(1, 10, 0), At(1, 11, 0), FALSE),
                     Slot(3, "free", At(2, 9, 0), At(2, 10, 0), FALSE)}
    /\ storeAppointments = {Appointment(4, "booked", At(0, 13, 0), At(0, 14, 0), NoSeries)}
    /\ nextId = 5
    /\ FetchStart /\ DialogStart /\ VisitStart
    /\ cancelRun = NoRun

FetchNext ==
    \/ \E newRange \in FetchRanges : HandleRangeChange(newRange)
    \/ \E updatedSchedule \in {<<>>, WeekdaysSchedule} : SetSchedule(updatedSchedule)
    \/ \E rawSlots \in slotSearches : ResolveSlotSearch(rawSlots)
    \/ ResolveAppointmentSearch

SpecFetch == FetchInit /\ [][FetchNext]_vars

\* C2: once no Slot search is on its way, the slots displayed are the merged
\* result of the search for the range shown now, in whatever order the
\* searches issued before resolved; the result of a superseded search is
\* never what stays displayed.
C2_LatestFetchWins ==
    (slotSearches = {} /\ range # NoRange) =>
        slots = mergeOverlappingSlots(SearchSlots(storeSlots, range))

(***************************************************************************)
(* Blocking time: the dialog's block form and the modal's block cards and  *)
(* holidays, on a day that holds a booked and a cancelled appointment.     *)
(***************************************************************************)
DayRange(d) == [start |-> Midnight(d), end |-> Midnight(d) + Day]

BlockSlotInfos ==
    {[start |-> At(0, 10, 30), end |-> At(0, 10, 30), action |-> "click"],
     [start |-> At(0, 13, 0), end |-> At(0, 13, 0), action |-> "click"],
     [start |-> At(0, 11, 0), end |-> At(0, 12, 0), action |-> "select"],
     [start |-> At(0, 0, 30), end |-> At(0, 0, 30), action |-> "click"]}

BlockedTime(allDay, startDate, endDate, startTime, endTime) ==
    [allDay |-> allDay, startDate |-> startDate, endDate |-> endDate,
     startTime |-> startTime, endTime |-> endTime]

BlockCards ==
    {BlockedTime(TRUE, 0, 0, 14 * Hour, 15 * Hour),
     BlockedTime(TRUE, 1, 0, 14 * Hour, 15 * Hour),
     BlockedTime(FALSE, 0, 0, 10 * Hour, 11 * Hour),
     BlockedTime(FALSE, 0, 0, 11 * Hour, 10 * Hour),
     BlockedTime(FALSE, 1, 1, 14 * Hour, 15 * Hour)}

BlockInit ==
    /\ CodecStart /\ existingBlocks = <<>>
    /\ PageLoaded(WeekdaysSchedule, DayRange(0), {},
                  {Appointment(1, "booked", At(0, 10, 0), At(0, 11, 0), NoSeries),
                   Appointment(2, "cancelled", At(0, 13, 0), At(0, 14, 0), NoSeries)})
    /\ DialogStart /\ VisitStart
    /\ cancelRun = NoRun

BlockNext ==
    \/ \E slot \in BlockSlotInfos : HandleSelectInterval(slot)
    \/ \E shown \in BOOLEAN : SetShowBlockForm(shown)
    \/ CloseSlotChoice
    \/ \E ok \in BOOLEAN : HandleBlockFromCalendar(ok)
    \/ \E block \in BlockCards, ok \in BOOLEAN : HandleBlockTime(block, ok)
    \/ \E selectedHolidays \in {<<0>>, <<1, 2>>}, failAt \in 0..2 :
          HandleBlockHolidays(selectedHolidays, failAt)
    \/ \E rawSlots \in slotSearches : ResolveSlotSearch(rawSlots)

SpecBlock == BlockInit /\ [][BlockNext]_vars

\* C3: no step adds a busy-unavailable Slot to the store whose interval
\* overlaps an appointment of the fetched snapshot that is not cancelled,
\* whether the dialog's block form, a block card of the modal or the modal's
\* holidays created it.
C3_NoBlockOverAppointment ==
    [][\A s \in storeSlots' \ storeSlots :
          s.status = "busy-unavailable" =>
             ~ \E i \in 1..Len(appointments) :
                  /\ appointments[i].status # "cancelled"
                  /\ s.start < appointments[i].end
                  /\ appointments[i].start < s.end]_vars

(***************************************************************************)
(* Booking a visit: the dialog's 'New appointment' and the CreateVisit     *)
(* form, on a day that holds a block (10:00-11:00), a persisted free slot  *)
(* (13:00-14:00), a busy-unavailable slot carrying the transient           *)
(* identifier (15:00-16:00), a booked appointment (16:00-17:00) and a      *)
(* cancelled one (13:00-14:00).                                            *)
(***************************************************************************)
VisitSlotInfos ==
    {[start |-> At(0, 11, 0), end |-> At(0, 11, 0), action |-> "click"],
     [start |-> At(0, 10, 30), end |-> At(0, 11, 30), action |-> "select"],
     [start |-> At(0, 13, 0), end |-> At(0, 13, 0), action |-> "click"],
     [start |-> At(0, 15, 0), end |-> At(0, 15, 0), action |-> "click"],
     [start |-> At(0, 16, 0), end |-> At(0, 16, 0), action |-> "click"]}

\* The instants typed into the Start Time and End Time inputs.
VisitTimes == {At(0, 10, 30), At(0, 11, 0)}

VisitInit ==
    /\ CodecStart /\ existingBlocks = <<>>
    /\ PageLoaded(WeekdaysSchedule, DayRange(0),
                  {Slot(1, "busy-unavailable", At(0, 10, 0), At(0, 11, 0), FALSE),
                   Slot(2, "free", At(0, 13, 0), At(0, 14, 0), FALSE),
                   Slot(3, "busy-unavailable", At(0, 15, 0), At(0, 16, 0), TRUE)},
                  {Appointment(4, "booked", At(0, 16, 0), At(0, 17, 0), NoSeries),
                   Appointment(5, "cancelled", At(0, 13, 0), At(0, 14, 0), NoSeries)})
    /\ DialogStart /\ VisitStart
    /\ cancelRun = NoRun

VisitNext ==
    \/ \E slot \in VisitSlotInfos : HandleSelectInterval(slot)
    \/ CloseSlotChoice
    \/ HandleNewAppointmentFromChoice
    \/ \E f \in RequiredFields : SetRequiredField(f)
    \/ \E value \in VisitTimes : SetStart(value)
    \/ \E value \in VisitTimes : SetEnd(value)
    \/ CloseCreateVisit
    \/ \E failAt \in 0..1 : HandleSubmit(failAt)

SpecVisit == VisitInit /\ [][VisitNext]_vars

(***************************************************************************)
(* Recurring visits: the CreateVisit form open on Monday 11:00-12:00 of an *)
(* empty calendar, its 'Repeat weekly' inputs and its submit.              *)
(***************************************************************************)
SeriesInit ==
    /\ CodecStart /\ existingBlocks = <<>>
    /\ PageLoaded(WeekdaysSchedule, DayRange(0), {}, {})
    /\ pendingSlotInfo = [start |-> At(0, 11, 0), end |-> At(0, 12, 0)]
    /\ slotChoiceOpened = FALSE
    /\ showBlockForm = FALSE
    /\ appointmentSlot = [start |-> At(0, 11, 0), end |-> At(0, 12, 0)]
    /\ appointmentDetails = NoAppointment
    /\ notice = NoNotice
    /\ visitOpen = TRUE
    /\ visitStart = At(0, 11, 0)
    /\ visitEnd = At(0, 12, 0)
    /\ isRecurring = FALSE
    /\ recurrenceOccurrences = 4
    /\ recurrenceIntervalWeeks = 1
    /\ required = {}
    /\ encounters = <<>>
    /\ submitRun = NoSubmit
    /\ location = "schedule"
    /\ cancelRun = NoRun

SeriesNext ==
    \/ \E f \in RequiredFields : SetRequiredField(f)
    \/ \E checked \in BOOLEAN : SetIsRecurring(checked)
    \/ \E v \in 1..2 : SetRecurrenceOccurrences(v)
    \/ \E v \in 1..2 : SetRecurrenceIntervalWeeks(v)
    \/ \E failAt \in 0..3 : HandleSubmit(failAt)

SpecSeries == SeriesInit /\ [][SeriesNext]_vars

\* The appointments one submit adds to the store.
Created == storeAppointments' \ storeAppointments

\* A submit of the form set to repeat n >= 2 times that reaches the store.
SeriesCreated ==
    /\ visitOpen /\ isRecurring /\ recurrenceOccurrences >= 2
    /\ Created # {}

OverlapInstants == {At(0, 10, 0), At(0, 10, 30), At(0, 11, 0), At(0, 11, 30)}

\* A persisted busy-unavailable slot of the snapshot that is not a $find result.
Qualifying(s) == s.id # NoId /\ s.status = "busy-unavailable" /\ ~s.transient

\* Some qualifying slot of the snapshot strictly intersects [start, end).
BlockedAgainst(start, end) ==
    \E i \in 1..Len(slots) :
       /\ Qualifying(slots[i])
       /\ start < slots[i].end /\ slots[i].start < end

\* Some qualifying slot of the snapshot strictly contains the instant t.
BlockContains(t) ==
    \E i \in 1..Len(slots) :
       Qualifying(slots[i]) /\ slots[i].start < t /\ t < slots[i].end

\* Some appointment of the snapshot that is not cancelled strictly contains t.
AppointmentContains(t) ==
    \E i \in 1..Len(appointments) :
       /\ appointments[i].status # "cancelled"
       /\ appointments[i].start < t /\ t < appointments[i].end

\* The dialog's 'New appointment' decides: it rejects or it opens the form.
DialogDecides ==
    /\ slotChoiceOpened /\ ~showBlockForm /\ ~visitOpen
    /\ notice' # notice \/ visitOpen'

\* The form's submit decides, its required fields filled: it rejects, or it
\* reaches the store.
SubmitDecides ==
    /\ visitOpen /\ required = RequiredFields
    /\ notice' # notice \/ storeAppointments' # storeAppointments

Blocked == Notice("This time is blocked", 0)
Overlaps == Notice("This time overlaps with an existing appointment", 0)

\* C6: rangesOverlap(aStart, aEnd, bStart, bEnd) is aStart < bEnd and
\* bStart < aEnd, is symmetric in its two intervals, and is false of two
\* intervals that only touch; so the dialog rejects a candidate as blocked
\* when it strictly intersects a block, and never one that starts where the
\* block ends.
C6_HalfOpenOverlap ==
    /\ [](\A aS, aE, bS, bE \in OverlapInstants :
             /\ rangesOverlap(aS, aE, bS, bE) <=> (aS < bE /\ bS < aE)
             /\ rangesOverlap(aS, aE, bS, bE) <=> rangesOverlap(bS, bE, aS, aE)
             /\ aE = bS => ~rangesOverlap(aS, aE, bS, bE))
    /\ [][DialogDecides =>
             IF BlockedAgainst(pendingSlotInfo.start, pendingSlotInfo.end)
             THEN notice' = Blocked /\ ~visitOpen'
             ELSE notice' = notice \/ notice' # Blocked]_vars

\* The form is open on a candidate that starts exactly when a block ends.
C6_Witness ==
    /\ visitOpen
    /\ \E i \in 1..Len(slots) :
          Qualifying(slots[i]) /\ slots[i].end = appointmentSlot.start
    /\ visitStart = appointmentSlot.start

SlotShapes ==
    {Slot(id, status, At(0, 10, 0), At(0, 11, 0), transient) :
        id \in {NoId, 1}, status \in {"free", "busy", "busy-unavailable"},
        transient \in BOOLEAN}

\* C10: the dialog opens the form, and the form's submit reaches the store,
\* only for an interval that overlaps no slot of the snapshot that has an id,
\* is busy-unavailable and is not transient; the interval is the dialog's
\* candidate, and at submit the start and end the form then holds; and a
\* request is rejected as blocked only for such a slot, never for a free, an
\* id-less or a transient one.
C10_BlockedTimeRejected ==
    /\ [](\A s \in SlotShapes : (BlockedSlots(<<s>>) = <<s>>) <=> Qualifying(s))
    /\ [][/\ DialogDecides =>
                IF BlockedAgainst(pendingSlotInfo.start, pendingSlotInfo.end)
                THEN /\ notice' = Blocked /\ ~visitOpen'
                     /\ storeAppointments' = storeAppointments
                ELSE notice' = notice \/ notice' # Blocked
          /\ SubmitDecides =>
                IF BlockedAgainst(visitStart, visitEnd)
                THEN notice' = Blocked /\ storeAppointments' = storeAppointments
                ELSE notice' = notice \/ notice' # Blocked
          /\ storeAppointments' # storeAppointments =>
                /\ visitOpen
                /\ ~BlockedAgainst(visitStart, visitEnd)]_vars

\* The form was opened on a free candidate, its times were moved into the
\* block, and its submit was rejected with nothing created.
C10_Witness ==
    /\ visitOpen /\ required = RequiredFields
    /\ ~BlockedAgainst(appointmentSlot.start, appointmentSlot.end)
    /\ visitStart < visitEnd
    /\ BlockedAgainst(visitStart, visitEnd)
    /\ notice = Blocked
    /\ encounters = <<>>
    /\ submitRun = NoSubmit

(***************************************************************************)
(* Cancelling a series: a weekly series of five booked appointments, the   *)
(* first of them on the day the calendar shows.                            *)
(***************************************************************************)
SeriesOfFive ==
    {Appointment(k + 1, "booked", At(7 * (k - 1), 9, 0), At(7 * (k - 1), 10, 0), 1) :
        k \in 1..5}

CancelInit ==
    /\ CodecStart /\ existingBlocks = <<>>
    /\ PageLoaded(WeekdaysSchedule, DayRange(0), {}, SeriesOfFive)
    /\ DialogStart /\ VisitStart
    /\ cancelRun = NoRun

CancelNext ==
    \/ \E i \in 1..Len(appointments), hasEncounter \in BOOLEAN :
          HandleSelectAppointment(appointments[i], hasEncounter)
    \/ \E i \in 1..Len(appointments), found \in BOOLEAN :
          HandleCancelSeries(appointments[i], found)
    \/ \E found \in BOOLEAN : DetailsHandleCancelSeries(found)
    \/ \E ok \in BOOLEAN : CancelNextMember(ok)
    \/ CancelSeriesDone
    \/ ResolveAppointmentSearch

SpecCancel == CancelInit /\ [][CancelNext]_vars

\* The members the store accepted to cancel, among those visited.
Successes(outcomes) == Cardinality({k \in 1..Len(outcomes) : outcomes[k]})

\* C9: cancelRecurrenceSeries visits the members of the series one after the
\* other, goes on to the next member whether or not the store cancelled the
\* last one, and counts as cancelledCount the members the store did cancel;
\* the handler that called it reports that count (a series of 5 with a
\* failure on member 3 is reported as 4).
C9_BestEffortCount ==
    /\ [](cancelRun # NoRun =>
             /\ cancelRun.idx = Len(cancelRun.outcomes) + 1
             /\ cancelRun.idx <= Len(cancelRun.members) + 1
             /\ cancelRun.cancelledCount = Successes(cancelRun.outcomes)
             /\ \A k \in 1..Len(cancelRun.outcomes) :
                   cancelRun.outcomes[k] =>
                      \E a \in storeAppointments :
                         a.id = cancelRun.members[k] /\ a.status = "cancelled")
    /\ [][(cancelRun # NoRun /\ cancelRun' # cancelRun) =>
             IF cancelRun.idx <= Len(cancelRun.members)
             THEN /\ cancelRun'.idx = cancelRun.idx + 1
                  /\ cancelRun'.members = cancelRun.members
             ELSE /\ cancelRun' = NoRun
                  /\ notice'.count = Successes(cancelRun.outcomes)]_vars

\* The series of five was cancelled with the store failing on member 3 only,
\* and 4 was reported.
C9_Witness ==
    /\ cancelRun = NoRun
    /\ notice = Notice("Cancelled appointments in the series", 4)
    /\ \A a \in storeAppointments :
          a.status = (IF a.id = 4 THEN "booked" ELSE "cancelled")

(***************************************************************************)
(* Requests for an appointment next to the appointments shown: by the      *)
(* dialog, by a click on a persisted free slot, and by the visit form; on  *)
(* a day with a booked appointment (16:00-17:00), a cancelled one          *)
(* (13:00-14:00), persisted free slots over each, a block, and a $find     *)
(* result.                                                                 *)
(***************************************************************************)
VisitOnlySchedule == <<Block("visit", buildAvailabilityExtensions(makeDefaultWeek))>>

SelectSlotInfos ==
    {[start |-> At(0, 13, 0), end |-> At(0, 13, 0), action |-> "click"],
     [start |-> At(0, 16, 0), end |-> At(0, 16, 0), action |-> "click"],
     [start |-> At(0, 15, 30), end |-> At(0, 16, 30), action |-> "select"],
     [start |-> At(0, 17, 0), end |-> At(0, 17, 0), action |-> "click"]}

SelectTimes == {At(0, 16, 30), At(0, 17, 0), At(0, 18, 0)}

SelectInit ==
    /\ CodecStart /\ existingBlocks = <<>>
    /\ PageLoaded(VisitOnlySchedule, DayRange(0),
                  {Slot(1, "busy-unavailable", At(0, 10, 0), At(0, 11, 0), FALSE),
                   Slot(2, "free", At(0, 13, 0), At(0, 14, 0), FALSE),
                   Slot(3, "free", At(0, 16, 30), At(0, 17, 30), FALSE)},
                  {Appointment(4, "booked", At(0, 16, 0), At(0, 17, 0), NoSeries),
                   Appointment(5, "cancelled", At(0, 13, 0), At(0, 14, 0), NoSeries)})
    /\ DialogStart /\ VisitStart
    /\ cancelRun = NoRun

SelectNext ==
    \/ \E slot \in SelectSlotInfos : HandleSelectInterval(slot)
    \/ CloseSlotChoice
    \/ HandleNewAppointmentFromChoice
    \/ \E slot \in ShownSlots, confirmed, ok \in BOOLEAN :
          HandleSelectSlot(slot, confirmed, ok)
    \/ \E f \in RequiredFields : SetRequiredField(f)
    \/ \E value \in SelectTimes : SetStart(value)
    \/ \E value \in SelectTimes : SetEnd(value)
    \/ CloseCreateVisit
    \/ \E failAt \in 0..1 : HandleSubmit(failAt)

SpecSelect == SelectInit /\ [][SelectNext]_vars

\* Some appointment of the snapshot that is not cancelled strictly intersects
\* [start, end).
LiveConflict(start, end) ==
    \E i \in 1..Len(appointments) :
       /\ appointments[i].status # "cancelled"
       /\ start < appointments[i].end /\ appointments[i].start < end

\* Some cancelled appointment of the snapshot strictly intersects [start, end).
CancelledConflict(start, end) ==
    \E i \in 1..Len(appointments) :
       /\ appointments[i].status = "cancelled"
       /\ start < appointments[i].end /\ appointments[i].start < end

\* C11: the visit form opens (from the dialog or from a click on a free
\* slot) only on an interval that overlaps no appointment of the snapshot
\* that is not cancelled, and its submit reaches the store only for such an
\* interval; a request that overlaps one is rejected with nothing created;
\* and a request is rejected as overlapping an appointment only when it
\* overlaps one that is not cancelled.
C11_LiveAppointmentRejected ==
    [][/\ (~visitOpen /\ visitOpen') =>
             ~LiveConflict(appointmentSlot'.start, appointmentSlot'.end)
       /\ DialogDecides =>
             (LiveConflict(pendingSlotInfo.start, pendingSlotInfo.end) =>
                /\ ~visitOpen' /\ notice' \in {Blocked, Overlaps}
                /\ storeAppointments' = storeAppointments)
       /\ SubmitDecides =>
             (LiveConflict(visitStart, visitEnd) =>
                /\ notice' \in {Blocked, Overlaps}
                /\ storeAppointments' = storeAppointments)
       /\ (visitOpen /\ storeAppointments' # storeAppointments) =>
             ~LiveConflict(visitStart, visitEnd)
       /\ (notice' = Overlaps /\ notice' # notice) =>
             IF visitOpen THEN LiveConflict(visitStart, visitEnd)
             ELSE IF slotChoiceOpened
             THEN LiveConflict(pendingSlotInfo.start, pendingSlotInfo.end)
             ELSE \E s \in ShownSlots :
                     /\ s.status = "free" /\ ~s.transient
                     /\ LiveConflict(s.start, s.start + Hour)]_vars

\* After a request was rejected for the booked appointment, the form is open
\* on 13:00-14:00, which only the cancelled appointment overlaps.
C11_Witness ==
    /\ visitOpen
    /\ notice = Overlaps
    /\ CancelledConflict(appointmentSlot.start, appointmentSlot.end)
    /\ ~LiveConflict(appointmentSlot.start, appointmentSlot.end)

\* The first occurrences the generator is tried on: an hour, nothing, and a
\* night across midnight.
FirstOccurrences ==
    {<<At(0, 9, 0), At(0, 10, 0)>>, <<At(1, 13, 30), At(1, 13, 30)>>,
     <<At(6, 22, 0), At(7, 6, 0)>>}

\* C12: getRecurringSlots returns exactly n occurrences in order, the i-th
\* (i = 0..n-1) starting i*w*7 days after the first start and lasting exactly
\* as long as the first occurrence (n = 4, w = 2 from Monday 5 January
\* 09:00-10:00: the days 0, 14, 28 and 42 from that Monday); and these are the
\* intervals a recurring submit creates its visits on.
C12_RecurringSlots ==
    /\ \A first \in FirstOccurrences, n \in 1..5, w \in 1..4 :
          LET occ == getRecurringSlots(first[1], first[2], n, w)
          IN /\ Len(occ) = n
             /\ \A i \in 0..(n - 1) :
                   /\ occ[i + 1].start = first[1] + i * w * 7 * Day
                   /\ occ[i + 1].end - occ[i + 1].start = first[2] - first[1]
    /\ [k \in 1..4 |-> getRecurringSlots(At(0, 9, 0), At(0, 10, 0), 4, 2)[k].start]
          = <<At(0, 9, 0), At(14, 9, 0), At(28, 9, 0), At(42, 9, 0)>>
    /\ (location = "encounter" /\ isRecurring) =>
          /\ Len(encounters) = recurrenceOccurrences
          /\ \A k \in 1..Len(encounters) :
                /\ encounters[k].start
                      = visitStart + (k - 1) * recurrenceIntervalWeeks * 7 * Day
                /\ encounters[k].end - encounters[k].start = visitEnd - visitStart

\* Four visits were created two weeks apart.
C12_Witness ==
    /\ location = "encounter" /\ isRecurring
    /\ recurrenceIntervalWeeks = 2
    /\ Len(encounters) = 4
    /\ encounters[4].start = At(42, 11, 0) /\ encounters[4].end = At(42, 12, 0)

(***************************************************************************)
(* The service-specific overrides of the form and the blocks a save writes. *)
(***************************************************************************)
\* A schedule with the default block and one override, as a save wrote it.
DefaultAndVisitSchedule ==
    buildSchedulingParametersExtensions(
        makeDefaultWeek, DefaultParams, <<Override("visit", makeDefaultWeek, DefaultParams)>>)

\* The modal opened on a schedule without blocks, or on DefaultAndVisitSchedule.
OverridesInit ==
    /\ \/ CodecStart /\ schedule = <<>>
       \/ /\ schedule = DefaultAndVisitSchedule
          /\ weekSchedule = parseWeekScheduleFromExtension(schedule[1].availability)
          /\ serviceTypeOverrides = ParseOverrides(schedule)
          /\ formParams = ParseDefault(schedule)
          /\ availability = schedule[1].availability
          /\ savedWeek = makeDefaultWeek
          /\ cphase = "parsed"
          /\ nEdits = 0
    /\ range = NoRange
    /\ availabilitySlots = <<>>
    /\ existingBlocks = <<>>
    /\ StoreStart /\ FetchStart /\ DialogStart /\ VisitStart
    /\ cancelRun = NoRun

OverridesNext ==
    \/ AddOverride
    \/ \E index \in 1..(MaxEdits + 1), value \in ServiceTypeChoices :
          SetOverrideServiceType(index, value)
    \/ \E index \in 1..(MaxEdits + 1) : RemoveOverride(index)
    \/ \E day \in DayOfWeek : ToggleDay(day)
    \/ SaveAvailability
    \/ ReopenModal

SpecOverrides == OverridesInit /\ [][OverridesNext]_vars

\* The keys of the schedule's blocks, in order.
BlockKeys(sched) == parseSchedulingParameters(sched)

KeysUnique(sched) ==
    \A i, j \in 1..Len(sched) :
        BlockKeys(sched)[i] = BlockKeys(sched)[j] => i = j

\* C13: after Add Override, service-type edits and removals followed by a
\* save, the schedule carries at most one block without serviceType and no
\* two blocks keyed by the same serviceType.
C13_BlockKeysUnique == cphase = "saved" => KeysUnique(schedule)

(***************************************************************************)
(* The DaySchedule of the form.                                            *)
(***************************************************************************)
\* C14: in the form state, after any toggles, added, removed and edited
\* windows and copy-to-all, every day whose enabled flag is false has an empty
\* window list.
C14_DisabledDayEmpty ==
    \A d \in DayOfWeek : ~weekSchedule[d].enabled => weekSchedule[d].timeWindows = <<>>

(***************************************************************************)
(* The $find requests of ScheduleFindPane.                                 *)
(***************************************************************************)
\* A schedule with the default block and two service types, so that the pane
\* mounts with nothing selected.
TwoServicesSchedule ==
    buildSchedulingParametersExtensions(
        makeDefaultWeek, DefaultParams,
        <<Override("visit", makeDefaultWeek, DefaultParams),
          Override("checkup", makeDefaultWeek, DefaultParams)>>)

FindRanges == {[dates |-> <<Midnight(a)>>] : a \in 0..1}

FindInit ==
    /\ CodecStart /\ existingBlocks = <<>>
    /\ PageLoaded(TwoServicesSchedule, DayRange(0), {}, {})
    /\ DialogStart /\ VisitStart
    /\ cancelRun = NoRun

FindNext ==
    \/ \E newRange \in FindRanges : HandleRangeChange(newRange)
    \/ \E updatedSchedule \in {WeekdaysSchedule, TwoServicesSchedule} :
          SetSchedule(updatedSchedule)
    \/ \E st \in {NoServiceType, "visit", "checkup"} : SetServiceType(st)
    \/ HandleDismiss
    \/ \E request \in findRequests, outcome \in {"entries", "empty", "error"} :
          ResolveFind(request, outcome)
    \/ \E rawSlots \in slotSearches : ResolveSlotSearch(rawSlots)
    \/ ResolveAppointmentSearch

SpecFind == FindInit /\ [][FindNext]_vars

\* The requests whose signal is not aborted.
Live(requests) == {r \in requests : ~r.aborted}

\* Only the request of the last run of the effect is not aborted: it asks for
\* the selection and the range the pane has now.
OnlyLatestLive ==
    /\ Cardinality(Live(findRequests)) <= 1
    /\ \A r \in Live(findRequests) :
          /\ PaneMounted(schedule, range)
          /\ serviceType # NoSelection
          /\ r = FindRequest(serviceType, range)

\* A step in which a $find request settles, and the request.
Settles(r) == r \in findRequests /\ findRequests' = findRequests \ {r}

\* C15: a $find request superseded by a newer selection, schedule or range
\* is aborted, and when it settles its result is not passed to onChange and
\* its failure raises no error notification.
C15_SupersededFindNoEffect ==
    [][/\ OnlyLatestLive /\ OnlyLatestLive'
       /\ \A r \in findRequests :
             Settles(r) /\ r.aborted => findSlots' = findSlots /\ notice' = notice]_vars

\* A superseded request still on its way while the result of the newer one
\* is shown.
C15_Witness ==
    /\ \E r \in findRequests : r.aborted /\ r.serviceType # serviceType
    /\ serviceType # NoSelection
    /\ findSlots = FindResult(FindRequest(serviceType, range))
    /\ Live(findRequests) = {}

(***************************************************************************)
(* The order of the days and of the windows in the encoder.                *)
(***************************************************************************)
\* The place of a day in ORDERED_DAYS.
DayRank(d) == CHOOSE i \in 1..Len(ORDERED_DAYS) : ORDERED_DAYS[i] = d

InCanonicalOrder(days) ==
    \A j, k \in 1..Len(days) : j < k => DayRank(days[j]) < DayRank(days[k])

\* C16: every entry emitted by buildAvailabilityExtensions lists its days in
\* the order Mon, Tue, Wed, Thu, Fri, Sat, Sun.
C16_CanonicalDayOrder ==
    \A i \in 1..Len(availability) : InCanonicalOrder(availability[i].dayOfWeek)

\* The orders a list can be put in.
Reorderings(seq) ==
    {[i \in 1..Len(seq) |-> seq[p[i]]] : p \in Permutations(1..Len(seq))}

\* The weeks that hold the windows of week on every day, the windows of up
\* to two days listed in another order.
ReorderedWeeks(week) ==
    {[week EXCEPT ![d1].timeWindows = p1, ![d2].timeWindows = p2] :
        <<d1, p1, d2, p2>> \in
            UNION {{<<a, pa, b, pb>> : pa \in Reorderings(week[a].timeWindows),
                                      pb \in Reorderings(week[b].timeWindows)} :
                   <<a, b>> \in {ab \in DayOfWeek \X DayOfWeek :
                                    DayRank(ab[1]) < DayRank(ab[2])}}}

\* An entry as (set of days, set of start times, duration), and the set of
\* the entries of a result.
EntrySet(avails) ==
    {<<SeqRange(avails[i].dayOfWeek), SeqRange(avails[i].timeOfDay), avails[i].duration>> :
        i \in 1..Len(avails)}

\* C17: two weeks that hold the same windows per day, listed in a different
\* order, encode to the same set of entries, each entry taken as (set of
\* days, set of start times, duration).
C17_OrderIndependent ==
    \A w \in ReorderedWeeks(weekSchedule) :
        EntrySet(buildAvailabilityExtensions(w))
            = EntrySet(buildAvailabilityExtensions(weekSchedule))

\* Two days hold the same two windows, which some reordering lists in
\* opposite orders and encodes to another list of entries.
C17_Witness ==
    /\ \E a, b \in DayOfWeek :
          /\ a # b
          /\ weekSchedule[a].enabled /\ weekSchedule[b].enabled
          /\ Len(weekSchedule[a].timeWindows) = 2
          /\ weekSchedule[a].timeWindows[1] # weekSchedule[a].timeWindows[2]
          /\ weekSchedule[b].timeWindows = weekSchedule[a].timeWindows
    /\ \E w \in ReorderedWeeks(weekSchedule) :
          buildAvailabilityExtensions(w) # buildAvailabilityExtensions(weekSchedule)

(***************************************************************************)
(* The merge of the persisted slots fetched for the calendar.              *)
(***************************************************************************)
\* Intervals of day 0 that overlap, touch, contain one another or lie apart.
MergeIntervals ==
    {<<At(0, 9, 0), At(0, 10, 0)>>, <<At(0, 9, 30), At(0, 10, 30)>>,
     <<At(0, 10, 0), At(0, 11, 0)>>, <<At(0, 10, 30), At(0, 11, 0)>>,
     <<At(0, 9, 0), At(0, 12, 0)>>, <<At(0, 13, 0), At(0, 14, 0)>>}

\* The stores of up to MaxSlots slots over these intervals, free or
\* busy-unavailable, identified 1, 2, ... in some order.
MergeStores ==
    LET shapes == MergeIntervals \X {"free", "busy-unavailable"}
    IN UNION {{{Slot(ids[sh], sh[2], sh[1][1], sh[1][2], FALSE) : sh \in chosen} :
                  ids \in {f \in [chosen -> 1..Cardinality(chosen)] :
                             \A a, b \in chosen : f[a] = f[b] => a = b}} :
              chosen \in {c \in SUBSET shapes : Cardinality(c) <= MaxSlots}}

MergeInit ==
    /\ CodecStart /\ existingBlocks = <<>>
    /\ schedule = WeekdaysSchedule
    /\ range = NoRange
    /\ availabilitySlots = <<>>
    /\ storeSlots \in MergeStores
    /\ storeAppointments = {}
    /\ nextId = Cardinality(storeSlots) + 1
    /\ FetchStart /\ DialogStart /\ VisitStart
    /\ cancelRun = NoRun

MergeNext ==
    \/ \E newRange \in {[dates |-> <<Midnight(0)>>]} : HandleRangeChange(newRange)
    \/ \E rawSlots \in slotSearches : ResolveSlotSearch(rawSlots)
    \/ ResolveAppointmentSearch

SpecMerge == MergeInit /\ [][MergeNext]_vars

\* The half hours of day 0 that the slots of one status in a list cover.
Covered(slotList, status) ==
    {t \in {At(0, 0, 0) + k * 1800 : k \in 0..47} :
        \E i \in 1..Len(slotList) :
            /\ slotList[i].status = status
            /\ slotList[i].start <= t /\ t < slotList[i].end}

\* No two slots of one status in the list overlap or touch.
Apart(slotList) ==
    \A i, j \in 1..Len(slotList) :
        i # j /\ slotList[i].status = slotList[j].status =>
            slotList[i].end < slotList[j].start \/ slotList[j].end < slotList[i].start

\* C18: merging a merged list gives the same list, and the merged slots of
\* one status cover what the fetched slots of that status cover and no more,
\* whatever slots of another status overlap or touch them.
C18_MergeIdempotentStatusPreserving ==
    \A rawSlots \in slotSearches :
        LET merged == mergeOverlappingSlots(rawSlots)
        IN /\ mergeOverlappingSlots(merged) = merged
           /\ Apart(merged)
           /\ \A status \in {"free", "busy-unavailable"} :
                 Covered(merged, status) = Covered(rawSlots, status)

\* A fetch on its way whose slots of two statuses overlap and whose merge
\* joins two of its slots.
C18_Witness ==
    \E rawSlots \in slotSearches :
        /\ Len(mergeOverlappingSlots(rawSlots)) < Len(rawSlots)
        /\ \E i, j \in 1..Len(rawSlots) :
              /\ rawSlots[i].status # rawSlots[j].status
              /\ rangesOverlap(rawSlots[i].start, rawSlots[i].end,
                               rawSlots[j].start, rawSlots[j].end)

(***************************************************************************)
(* What the generator reads of the Schedule.                               *)
(***************************************************************************)
HasDefault(sched) == \E i \in 1..Len(sched) : sched[i].serviceType = NoServiceType

\* The override blocks put in place of, before or after the blocks of a
\* schedule.
OverrideChoices ==
    {Block("visit", buildAvailabilityExtensions(makeDefaultWeek)),
     Block("checkup", <<Repeat(<<"sat", "sun">>, <<<<8, 0, 0>>>>, Num(3), "h")>>)}

\* The schedules that differ from sched in their override blocks only: all
\* of them removed, one added, one changed.
OverrideVariants(sched) ==
    {SelectSeq(sched, LAMBDA b : b.serviceType = NoServiceType)}
    \cup {<<o>> \o sched : o \in OverrideChoices}
    \cup {sched \o <<o>> : o \in OverrideChoices}
    \cup {[sched EXCEPT ![i] = o] :
            <<i, o>> \in {io \in (1..Len(sched)) \X OverrideChoices :
                             sched[io[1]].serviceType # NoServiceType}}

\* C19: the generator returns no slot when the schedule has no block without
\* serviceType, whatever override blocks it has, and override blocks added,
\* removed or changed never change what it returns.
C19_DefaultBlockOnly ==
    range # NoRange =>
        /\ ~HasDefault(schedule) => availabilitySlots = <<>>
        /\ \A sched \in OverrideVariants(schedule) :
              generateAvailabilitySlots(sched, range) = availabilitySlots

\* Slots shown for a schedule with an override block, and none for one
\* with override blocks only.
C19_Witness ==
    /\ range # NoRange
    /\ Len(schedule) = 2
    /\ \/ HasDefault(schedule) /\ availabilitySlots # <<>>
       \/ ~HasDefault(schedule) /\ schedule[2].availability # <<>>

\* The schedules that differ from sched in the sub-extensions of their
\* default blocks besides availability.
ParamVariants(sched) ==
    {[i \in 1..Len(sched) |->
        IF sched[i].serviceType = NoServiceType
        THEN WithParams(Block(NoServiceType, sched[i].availability), params)
        ELSE sched[i]] : params \in ParamChoices}

\* C20: schedules whose default blocks have the same availability entries
\* and differ in bufferBefore, bufferAfter, alignmentInterval,
\* alignmentOffset, bookingLimit, slot duration or timezone give the same
\* virtual slots for every range.
C20_ConstraintsIgnored ==
    range # NoRange =>
        \A sched \in ParamVariants(schedule) :
            generateAvailabilitySlots(sched, range) = availabilitySlots

\* Slots shown for a schedule whose default block carries buffers, an
\* alignment grid, a booking limit and a timezone.
C20_Witness ==
    /\ range # NoRange
    /\ availabilitySlots # <<>>
    /\ \E i \in 1..Len(schedule) :
          /\ schedule[i].serviceType = NoServiceType
          /\ "bufferBefore" \in DOMAIN schedule[i]
          /\ schedule[i].bufferBefore.value > 0

(***************************************************************************)
(* Clicks on the calendar's events: persisted slots, $find results and the *)
(* background events of the virtual availability slots.                    *)
(***************************************************************************)
VirtualInit ==
    /\ CodecStart /\ existingBlocks = <<>>
    /\ PageLoaded(DefaultAndVisitSchedule, DayRange(0),
                  {Slot(1, "busy-unavailable", At(0, 10, 0), At(0, 11, 0), FALSE),
                   Slot(2, "free", At(0, 13, 0), At(0, 14, 0), FALSE)},
                  {Appointment(3, "booked", At(0, 16, 0), At(0, 17, 0), NoSeries)})
    /\ DialogStart /\ VisitStart
    /\ cancelRun = NoRun

VirtualNext ==
    \/ \E slot \in ClickableSlots, confirmed, ok \in BOOLEAN :
          HandleSelectSlot(slot, confirmed, ok)
    \/ \E st \in {NoServiceType, "visit"} : SetServiceType(st)
    \/ HandleDismiss
    \/ \E request \in findRequests, outcome \in {"entries", "empty", "error"} :
          ResolveFind(request, outcome)
    \/ \E f \in RequiredFields : SetRequiredField(f)
    \/ CloseCreateVisit
    \/ \E failAt \in 0..1 : HandleSubmit(failAt)

SpecVirtual == VirtualInit /\ [][VirtualNext]_vars

\* The slot or appointment x lies over a $find result shown.
OverFindResult(x) ==
    \E i \in 1..Len(findSlots) :
        /\ findSlots[i].transient
        /\ x.start = findSlots[i].start /\ x.end = findSlots[i].end

\* C21: every virtual slot is free and has no id; a slot leaves the store
\* only if it has an id, is busy-unavailable and is no $find result; and
\* whatever a click on the calendar writes to the store (the visit form
\* closed) lies over a $find result, never over a virtual slot: a click on a
\* virtual slot writes and deletes nothing.
C21_VirtualSlotsDisplayOnly ==
    [][/\ \A i \in 1..Len(availabilitySlots) :
             availabilitySlots[i].status = "free" /\ availabilitySlots[i].id = NoId
       /\ \A s \in storeSlots \ storeSlots' : Qualifying(s)
       /\ ~visitOpen =>
             /\ \A s \in storeSlots' \ storeSlots : OverFindResult(s)
             /\ \A a \in storeAppointments' \ storeAppointments : OverFindResult(a)]_vars

\* The visit form opened by a click on the virtual slot of day 0, the store
\* as it was loaded.
C21_Witness ==
    /\ availabilitySlots # <<>>
    /\ visitOpen
    /\ appointmentSlot.start = availabilitySlots[1].start
    /\ Cardinality(storeSlots) = 2 /\ Cardinality(storeAppointments) = 1

(***************************************************************************)
(* The duration, buffers, alignment, limits and timezone of the form and   *)
(* the sub-extensions a save writes for them.                              *)
(***************************************************************************)
ParamFields == DOMAIN ParamInputs

\* A schedule whose default block carries every constraint.
ConstrainedSchedule ==
    buildSchedulingParametersExtensions(
        makeDefaultWeek,
        [durationValue |-> 1, durationUnit |-> "h", bufferBefore |-> 10, bufferAfter |-> 5,
         alignmentInterval |-> 15, alignmentOffset |-> 5,
         bookingLimits |-> <<BookingLimit(2)>>, timezone |-> "America/New_York"],
        <<>>)

\* A schedule written by another client, its durations in hours.
HourSchedule ==
    <<Block(NoServiceType, buildAvailabilityExtensions(makeDefaultWeek))
        @@ [duration |-> [value |-> 1, unit |-> "h"],
            bufferBefore |-> [value |-> 1, unit |-> "h"],
            bufferAfter |-> [value |-> 2, unit |-> "h"],
            alignmentInterval |-> [value |-> 2, unit |-> "h"],
            alignmentOffset |-> [value |-> 1, unit |-> "h"]]>>

\* The modal opened on a schedule without blocks, on ConstrainedSchedule or on
\* HourSchedule.
ParamsInit ==
    /\ \/ CodecStart /\ schedule = <<>>
       \/ /\ schedule \in {ConstrainedSchedule, HourSchedule}
          /\ weekSchedule = parseWeekScheduleFromExtension(schedule[1].availability)
          /\ serviceTypeOverrides = ParseOverrides(schedule)
          /\ formParams = ParseDefault(schedule)
          /\ availability = schedule[1].availability
          /\ savedWeek = makeDefaultWeek
          /\ cphase = "parsed"
          /\ nEdits = 0
    /\ range = NoRange
    /\ availabilitySlots = <<>>
    /\ existingBlocks = <<>>
    /\ StoreStart /\ FetchStart /\ DialogStart /\ VisitStart
    /\ cancelRun = NoRun

ParamsNext ==
    \/ \E field \in ParamFields : \E value \in ParamInputs[field] :
          UpdateDefault(field, value)
    \/ AddOverride
    \/ \E index \in 1..MaxEdits, field \in ParamFields :
          \E value \in ParamInputs[field] : UpdateOverride(index, field, value)
    \/ SaveAvailability
    \/ ReopenModal

SpecParams == ParamsInit /\ [][ParamsNext]_vars

\* The block stores only constraint values that mean something.
Meaningful(block) ==
    /\ \A url \in {"bufferBefore", "bufferAfter", "alignmentInterval"} :
          url \in DOMAIN block => block[url].value > 0
    /\ "alignmentOffset" \in DOMAIN block =>
          /\ block.alignmentOffset.value > 0
          /\ "alignmentInterval" \in DOMAIN block
          /\ block.alignmentInterval.value > 0
    /\ "bookingLimit" \in DOMAIN block =>
          /\ block.bookingLimit # <<>>
          /\ \A i \in 1..Len(block.bookingLimit) : block.bookingLimit[i].frequency > 0

\* C22: in every block a save writes, default or override, a bufferBefore,
\* bufferAfter or alignmentInterval entry is present only with a value > 0, an
\* alignmentOffset entry only when interval and offset are > 0, and every
\* bookingLimit entry has a count > 0.
C22_OnlyMeaningfulStored ==
    cphase = "saved" => \A i \in 1..Len(schedule) : Meaningful(schedule[i])

\* A save of a form that holds a value that is not > 0 next to one that is:
\* a negative buffer, a limit of count 0 or less, or an offset without an
\* interval.
C22_Witness ==
    /\ cphase = "saved"
    /\ \/ formParams.bufferBefore < 0
       \/ \E i \in 1..Len(formParams.bookingLimits) :
             formParams.bookingLimits[i].frequency <= 0
       \/ formParams.alignmentInterval = 0 /\ formParams.alignmentOffset > 0

\* The sub-extensions that hold a duration.
DurationUrls ==
    {"duration", "bufferBefore", "bufferAfter", "alignmentInterval", "alignmentOffset"}

\* The block with every duration of k hours stored as 60 * k minutes.
StoredInMinutes(block) ==
    [url \in DOMAIN block |->
        IF url \in DurationUrls /\ block[url].unit = "h"
        THEN [value |-> block[url].value * 60, unit |-> "min"]
        ELSE block[url]]

\* C24: the form values decoded for slot duration, buffer before, buffer
\* after, alignment interval and alignment offset are the same, in minutes,
\* whether the block stores k with unit hours or 60 * k with unit minutes.
C24_UnitNormalization ==
    cphase = "parsed" /\ DefaultExtIndex(schedule) # 0 =>
        \A field \in {"durationValue", "bufferBefore", "bufferAfter",
                       "alignmentInterval", "alignmentOffset"} :
            formParams[field]
                = ParseParams(StoredInMinutes(schedule[DefaultExtIndex(schedule)]))[field]

(***************************************************************************)
(* The block cards of the modal, valid or not.                             *)
(***************************************************************************)
\* Cards over two days: all day or partial, the end date before, on or after
\* the start date, the end time before, at or after the start time.
AllCards ==
    {BlockedTime(allDay, dates[1], dates[2], times[1], times[2]) :
        allDay \in BOOLEAN, dates \in (0..1) \X (0..1),
        times \in {5 * Hour, 20 * Hour} \X {5 * Hour, 20 * Hour}}

CardsNext ==
    \/ \E block \in AllCards, ok \in BOOLEAN : HandleBlockTime(block, ok)
    \/ \E selectedHolidays \in {<<0>>, <<1, 2>>}, failAt \in 0..2 :
          HandleBlockHolidays(selectedHolidays, failAt)

SpecCards == BlockInit /\ [][CardsNext]_vars

\* The card asks for an end date before its start date, or for a partial
\* block of one day whose end time is not after its start time.
Malformed(block) ==
    \/ block.endDate < block.startDate
    \/ ~block.allDay /\ block.startDate = block.endDate /\ block.endTime <= block.startTime

\* C23: the modal creates no slot for a card whose end date is before its
\* start date or which is a same-day partial block whose end time is not
\* after its start time: every slot it creates is busy-unavailable, is the
\* interval of a card that is neither, and starts strictly before it ends.
C23_BlockValidation ==
    [][\A s \in storeSlots' \ storeSlots :
          /\ s.status = "busy-unavailable"
          /\ s.start < s.end
          /\ \E block \in AllCards \cup {BlockedTime(TRUE, 2, 2, 0, 0)} :
                /\ ~Malformed(block)
                /\ BlockInterval(block) = [start |-> s.start, end |-> s.end]]_vars

\* A partial block from the evening of day 0 to the morning of day 1 was
\* created: its end time is before its start time, its end after its start.
C23_Witness ==
    \E s \in storeSlots :
        s.start = Midnight(0) + 20 * Hour /\ s.end = Midnight(1) + 5 * Hour

(***************************************************************************)
(* Two sessions of the page on one schedule: this page with its CreateVisit*)
(* form open, and a second session with its own fetched appointments.      *)
(***************************************************************************)
\* The appointments in the store up to which the second session submits.
MaxPeerVisits == 2

\* The second session's Appointment search resolves (its page load, or its
\* refresh trigger): its snapshot is what the store holds now.
PeerFetch ==
    /\ peerAppointments' = SearchAppointments(storeAppointments, range)
    /\ UNCHANGED <<slotSearches, slots, appointmentSearch, appointments, codecVars,
                   existingBlocks, genVars, storeVars, findVars, dialogVars, notice,
                   visitVars, cancelRun>>

\* CreateVisit.handleSubmit in the second session, its required fields set
\* and 'Repeat weekly' off: the checks against its own props, then the one
\* createEncounter; ok tells whether the store accepts it.  No session of
\* this specification changes a Slot, so both hold the same blocked slots.
PeerSubmit(start, end, ok) ==
    LET blockedSlots == BlockedSlots(slots)
        existingAppointments ==
            SelectSeq(peerAppointments, LAMBDA a : a.status # "cancelled")
    IN /\ ~OverlappingBlock(blockedSlots, start, end)
       /\ ~OverlappingAppointment(existingAppointments, start, end)
       /\ Cardinality(storeAppointments) < MaxPeerVisits
       /\ IF ok
          THEN /\ storeAppointments' =
                     storeAppointments \cup {createEncounter(nextId, start, end, NoSeries)}
               /\ nextId' = nextId + 1
          ELSE UNCHANGED <<storeAppointments, nextId>>
       /\ UNCHANGED <<storeSlots, fetchVars, codecVars, existingBlocks, genVars, findVars,
                      dialogVars, notice, visitVars, cancelRun>>

\* The instants the two sessions type into Start Time and End Time.
PeerTimes == {At(0, 11, 0), At(0, 11, 30), At(0, 12, 0)}

PeerNext ==
    \/ \E f \in RequiredFields : SetRequiredField(f)
    \/ \E value \in PeerTimes : SetStart(value)
    \/ \E value \in PeerTimes : SetEnd(value)
    \/ \E failAt \in 0..1 : HandleSubmit(failAt)
    \/ PeerFetch
    \/ \E start \in PeerTimes, end \in PeerTimes, ok \in BOOLEAN : PeerSubmit(start, end, ok)

SpecPeer == SeriesInit /\ [][PeerNext]_vars

\* The appointment is in the way of the interval for the local check.
InTheWay(a, start, end) == a.status # "cancelled" /\ rangesOverlap(start, end, a.start, a.end)

\* C25: the local check is advisory.  Every appointment a session creates
\* overlaps no live appointment of the snapshot that session last fetched.
\* This page's creates are those its form records in encounters; the others
\* are the second session's.  The witness is a store that nevertheless holds
\* two overlapping live appointments, one written by each session.
C25_ChecksAgainstSnapshotOnly ==
    [][\A a \in storeAppointments' \ storeAppointments :
          LET snapshot == IF encounters' # encounters THEN appointments
                          ELSE peerAppointments
          IN \A i \in 1..Len(snapshot) : ~InTheWay(snapshot[i], a.start, a.end)]_vars

\* Both sessions passed their check and both creates were written: the store
\* holds this page's visit and a live appointment of the second session that
\* overlaps it, and neither is in the other's snapshot.
C25_Witness ==
    /\ location = "encounter"
    /\ \E b \in storeAppointments :
          /\ b # encounters[1]
          /\ InTheWay(b, encounters[1].start, encounters[1].end)
          /\ InTheWay(encounters[1], b.start, b.end)
          /\ \A i \in 1..Len(appointments) : appointments[i] # b
          /\ \A i \in 1..Len(peerAppointments) : peerAppointments[i] # encounters[1]

(***************************************************************************)
(* Recurring visits against a calendar that shows the following week too:  *)
(* the form open on Monday 11:00-12:00, a block and an appointment on the  *)
(* Monday after.                                                           *)
(***************************************************************************)
RecurInit ==
    /\ CodecStart /\ existingBlocks = <<>>
    /\ PageLoaded(WeekdaysSchedule, [start |-> Midnight(0), end |-> Midnight(8)],
                  {Slot(1, "busy-unavailable", At(7, 11, 30), At(7, 12, 30), FALSE)},
                  {Appointment(2, "booked", At(7, 10, 30), At(7, 11, 15), NoSeries)})
    /\ pendingSlotInfo = [start |-> At(0, 11, 0), end |-> At(0, 12, 0)]
    /\ slotChoiceOpened = FALSE
    /\ showBlockForm = FALSE
    /\ appointmentSlot = [start |-> At(0, 11, 0), end |-> At(0, 12, 0)]
    /\ appointmentDetails = NoAppointment
    /\ notice = NoNotice
    /\ visitOpen = TRUE
    /\ visitStart = At(0, 11, 0)
    /\ visitEnd = At(0, 12, 0)
    /\ isRecurring = FALSE
    /\ recurrenceOccurrences = 4
    /\ recurrenceIntervalWeeks = 1
    /\ required = {}
    /\ encounters = <<>>
    /\ submitRun = NoSubmit
    /\ location = "schedule"
    /\ cancelRun = NoRun

SpecRecur == RecurInit /\ [][SeriesNext]_vars

\* The interval meets a blocked slot or a live appointment of the snapshot
\* the form was rendered with.
Conflicting(start, end) ==
    \/ OverlappingBlock(BlockedSlots(slots), start, end)
    \/ OverlappingAppointment(SelectSeq(appointments, LAMBDA a : a.status # "cancelled"),
                              start, end)

\* C26: no occurrence of a recurring series is created over a persisted
\* busy-unavailable block or a non-cancelled appointment of the snapshot:
\* every appointment a submit creates, the first or a later one, is free of
\* both.
C26_EveryOccurrenceGated ==
    [][\A a \in Created : ~Conflicting(a.start, a.end)]_vars

\* C27: whatever is typed into Start Time and End Time before the submit,
\* every appointment the form creates ends strictly after it starts.
C27_WellFormedInterval ==
    [][\A a \in Created : a.start < a.end]_vars

\* C28: the appointment the details drawer shows is presented as cancelled
\* only if the store holds it as cancelled, also after a series cancellation
\* started from the drawer in which the store refused that member.
C28_ViewedCancelledOnlyIfStored ==
    (appointmentDetails # NoAppointment /\ appointmentDetails.status = "cancelled") =>
        \E a \in storeAppointments :
            a.id = appointmentDetails.id /\ a.status = "cancelled"

(***************************************************************************)
(* CreateVisit.handleSubmit await by await: the checks and setIsLoading,   *)
(* one turn of the createEncounter loop at a time, then the notification   *)
(* and the navigation.  HandleSubmit is the same handler as one step.      *)
(***************************************************************************)
\* A loop that goes on to the next occurrence when a create is refused.
AfterFailureSkip(run) == [run EXCEPT !.idx = @ + 1]

\* createEncounter throws: the loop is left through catch and finally
\* (setIsLoading(false)).
AfterFailure(run) == NoSubmit

\* The handler up to its first await: the early returns, setIsLoading(true),
\* the slots of the series and its identifier.
SubmitStart ==
    LET blockedSlots == BlockedSlots(slots)
        existingAppointments == SelectSeq(appointments, LAMBDA a : a.status # "cancelled")
        occ == IF isRecurring
               THEN getRecurringSlots(visitStart, visitEnd, recurrenceOccurrences,
                                      recurrenceIntervalWeeks)
               ELSE <<[start |-> visitStart, end |-> visitEnd]>>
        recurrenceSeriesId == RecurrenceSeriesId(isRecurring, Len(occ), nextId)
    IN /\ location = "schedule" /\ visitOpen
       /\ ~submitRun.isLoading         \* the button is disabled while loading
       /\ IF required # RequiredFields \/ visitStart = NoInstant \/ visitEnd = NoInstant
          THEN /\ notice' = Notice("Please fill out required fields.", 0)
               /\ UNCHANGED <<nextId, encounters, submitRun>>
          ELSE IF OverlappingBlock(blockedSlots, visitStart, visitEnd)
          THEN /\ notice' = Notice("This time is blocked", 0)
               /\ UNCHANGED <<nextId, encounters, submitRun>>
          ELSE IF OverlappingAppointment(existingAppointments, visitStart, visitEnd)
          THEN /\ notice' = Notice("This time overlaps with an existing appointment", 0)
               /\ UNCHANGED <<nextId, encounters, submitRun>>
          ELSE /\ Cardinality(storeAppointments) + Len(occ) <= MaxAppointments
               /\ submitRun' = [isLoading |-> TRUE, slots |-> occ, idx |-> 1,
                                recurrenceSeriesId |-> recurrenceSeriesId]
               /\ encounters' = <<>>
               /\ UNCHANGED <<nextId, notice>>
       /\ UNCHANGED <<storeSlots, storeAppointments, location, visitOpen, visitStart,
                      visitEnd, isRecurring, recurrenceOccurrences,
                      recurrenceIntervalWeeks, required, notVisit>>

\* One turn of 'for (const slot of slots)': the awaited createEncounter; ok
\* tells whether the store accepts it.
CreateNextEncounter(ok) ==
    LET slot == submitRun.slots[submitRun.idx]
        \* a uuid that tags nothing leaves no trace
        id == IF submitRun.recurrenceSeriesId = nextId THEN nextId + 1 ELSE nextId
        enc == createEncounter(id, slot.start, slot.end, submitRun.recurrenceSeriesId)
    IN /\ submitRun.isLoading
       /\ submitRun.idx <= Len(submitRun.slots)
       /\ IF ok
          THEN /\ storeAppointments' = storeAppointments \cup {enc}
               /\ nextId' = id + 1
               /\ encounters' = Append(encounters, enc)
               /\ submitRun' = [submitRun EXCEPT !.idx = @ + 1]
               /\ UNCHANGED notice
          ELSE /\ notice' = Notice("error", 0)        \* showErrorNotification(err)
               /\ submitRun' = AfterFailure(submitRun)
               /\ UNCHANGED <<storeAppointments, nextId, encounters>>
       /\ UNCHANGED <<storeSlots, location, visitOpen, visitStart, visitEnd, isRecurring,
                      recurrenceOccurrences, recurrenceIntervalWeeks, required, notVisit>>

\* After the loop: the success notification, navigate, and finally
\* setIsLoading(false).
SubmitDone ==
    /\ submitRun.isLoading
    /\ submitRun.idx > Len(submitRun.slots)
    /\ notice' = Notice(IF Len(encounters) = 1 THEN "Visit created"
                        ELSE "recurring visits created", Len(encounters))
    /\ location' = "encounter"
    /\ submitRun' = NoSubmit
    /\ UNCHANGED <<storeVars, encounters, visitOpen, visitStart, visitEnd, isRecurring,
                   recurrenceOccurrences, recurrenceIntervalWeeks, required, notVisit>>

StepsNext ==
    \/ \E f \in RequiredFields : SetRequiredField(f)
    \/ \E checked \in BOOLEAN : SetIsRecurring(checked)
    \/ \E v \in 2..3 : SetRecurrenceOccurrences(v)
    \/ SubmitStart
    \/ \E ok \in BOOLEAN : CreateNextEncounter(ok)
    \/ SubmitDone

SpecSteps == SeriesInit /\ [][StepsNext]_vars

\* The store holds an appointment on the interval.
Persisted(slot) ==
    \E a \in storeAppointments : a.start = slot.start /\ a.end = slot.end

\* C29: the creates of a series go to the store one at a time in occurrence
\* order, with no rollback.  A step that adds to the store belongs to the
\* running submit and adds exactly the occurrence the loop is at, the ones
\* before it being persisted and the ones after it not; nothing is ever
\* removed.  When the create of occurrence k is refused, the submit ends
\* there: the loading flag is cleared, the error is shown and not a success,
\* the page stays on the schedule, and what the submit created is exactly
\* occurrences 1..k-1, which stay persisted; while no submit runs nothing is
\* created.
C29_SequentialNoRollback ==
    [][LET run == submitRun
           n == Len(run.slots)
           k == run.idx
       IN /\ storeAppointments \subseteq storeAppointments'
          /\ Created # {} =>
                /\ run.isLoading /\ k <= n
                /\ \A a \in Created : a.start = run.slots[k].start /\ a.end = run.slots[k].end
                /\ Cardinality(Created) = 1
          /\ (run.isLoading /\ k <= n /\ Created = {} /\ submitRun' # run) =>
                /\ ~submitRun'.isLoading
                /\ notice' = Notice("error", 0)
                /\ location' = "schedule"
                /\ Len(encounters') = k - 1
                /\ \A i \in 1..(k - 1) :
                      /\ encounters'[i] \in storeAppointments'
                      /\ encounters'[i].start = run.slots[i].start
                      /\ encounters'[i].end = run.slots[i].end
          /\ (location = "schedule" /\ location' = "encounter") =>
                /\ Len(encounters') = n
                /\ \A i \in 1..n : encounters'[i] \in storeAppointments']_vars

\* The create of the second of three occurrences was refused: the first is
\* persisted, the second and third are not, the error is shown, the form is
\* still open on the schedule and is not loading.
C29_Witness ==
    /\ isRecurring /\ recurrenceOccurrences = 3
    /\ ~submitRun.isLoading
    /\ notice = Notice("error", 0)
    /\ location = "schedule"
    /\ Len(encounters) = 1
    /\ Persisted([start |-> visitStart, end |-> visitEnd])
    /\ ~Persisted([start |-> visitStart + 7 * Day, end |-> visitEnd + 7 * Day])
    /\ ~Persisted([start |-> visitStart + 14 * Day, end |-> visitEnd + 14 * Day])

(***************************************************************************)
(* SetAvailabilityModal: removing the blocks it lists.                     *)
(***************************************************************************)
\* handleDeleteBlock, confirmed; ok tells whether the store accepts the delete.
HandleDeleteBlock(slot, ok) ==
    /\ location = "schedule"
    /\ \E i \in 1..Len(existingBlocks) : existingBlocks[i] = slot
    /\ IF ok
       THEN /\ storeSlots' = {s \in storeSlots : s.id # slot.id}
            /\ existingBlocks' = SelectSeq(existingBlocks, LAMBDA s : s.id # slot.id)
            /\ notice' = Notice("Block Removed", 1)
       ELSE /\ notice' = Notice("error", 0)
            /\ UNCHANGED <<storeSlots, existingBlocks>>
    /\ UNCHANGED <<storeAppointments, nextId, codecVars, genVars, fetchVars, findVars,
                   dialogVars, visitVars, cancelRun>>

\* handleClearPastBlocks at the instant now, confirmed; failAt is the delete
\* the store refuses (0: none).  The deletes before it have happened.
HandleClearPastBlocks(now, failAt) ==
    LET pastBlocks == SelectSeq(existingBlocks, LAMBDA s : s.end < now)
        deleted == {pastBlocks[i].id :
                       i \in 1..(IF failAt = 0 THEN Len(pastBlocks) ELSE failAt - 1)}
    IN /\ location = "schedule"
       /\ Len(pastBlocks) # 0
       /\ failAt <= Len(pastBlocks)
       /\ storeSlots' = {s \in storeSlots : s.id \notin deleted}
       /\ IF failAt = 0
          THEN /\ existingBlocks' = SelectSeq(existingBlocks, LAMBDA s : s.end >= now)
               /\ notice' = Notice("Past Blocks Cleared", Len(pastBlocks))
          ELSE /\ notice' = Notice("error", 0)
               /\ UNCHANGED existingBlocks
       /\ UNCHANGED <<storeAppointments, nextId, codecVars, genVars, fetchVars, findVars,
                      dialogVars, visitVars, cancelRun>>

\* fetchExistingBlocks: the modal opens, or is opened again.
FetchBlocks ==
    /\ location = "schedule"
    /\ existingBlocks' = FetchExistingBlocks(storeSlots)
    /\ UNCHANGED <<storeVars, notice, codecVars, genVars, fetchVars, findVars, dialogVars,
                   visitVars, cancelRun>>

\* The blocks in the store when the modal opens: four that are over on
\* day 2 and one that is not.
ClearSlots ==
    {Slot(1, "busy-unavailable", At(0, 10, 0), At(0, 11, 0), FALSE),
     Slot(2, "busy-unavailable", At(0, 14, 0), At(0, 15, 0), FALSE),
     Slot(3, "busy-unavailable", At(1, 10, 0), At(1, 11, 0), FALSE),
     Slot(4, "busy-unavailable", At(1, 14, 0), At(1, 15, 0), FALSE),
     Slot(5, "busy-unavailable", At(3, 10, 0), At(3, 11, 0), FALSE)}

\* The instants at which 'Clear past blocks' is pressed.
ClearTimes == {At(0, 12, 0), At(1, 12, 0), At(2, 12, 0)}

ClearInit ==
    /\ CodecStart /\ existingBlocks = FetchExistingBlocks(ClearSlots)
    /\ PageLoaded(WeekdaysSchedule, DayRange(0), ClearSlots, {})
    /\ DialogStart /\ VisitStart
    /\ cancelRun = NoRun

ClearNext ==
    \/ \E i \in 1..Len(existingBlocks), ok \in BOOLEAN :
          HandleDeleteBlock(existingBlocks[i], ok)
    \/ \E now \in ClearTimes, failAt \in 0..4 : HandleClearPastBlocks(now, failAt)
    \/ FetchBlocks

SpecClear == ClearInit /\ [][ClearNext]_vars

\* C30: the list of blocks the modal holds contains no block that has been
\* deleted from the store, whether a bulk clear went through or a delete of
\* it was refused after earlier ones had succeeded.
C30_ListedBlocksAreStored ==
    \A i \in 1..Len(existingBlocks) :
        \E s \in storeSlots : s.id = existingBlocks[i].id

====
